---- MODULE Spec2Model ----
(***************************************************************************)
(* Model of the obsidian-therapist plugin: the content parser              *)
(* (contentParser.ts), the session controller (main.ts) and the            *)
(* multi-agent orchestration (an earlier main.ts).                         *)
(*                                                                         *)
(* A text is a sequence of one-character strings; offsets are zero-based   *)
(* as in JavaScript and converted where Sequences needs one-based ones.    *)
(***************************************************************************)
EXTENDS Naturals, Integers, Sequences, FiniteSets, TLC

(***************************************************************************)
(* JavaScript string primitives used by the source.                        *)
(***************************************************************************)
NL == "\n"

\* String.prototype.trim strips these (the model's alphabet has no other white space)
WhiteSpace == {" ", "\n", "\t"}

Max(S) == CHOOSE x \in S : \A y \in S : y =< x

Min(S) == CHOOSE x \in S : \A y \in S : x =< y

\* s.substring(from): the suffix starting at zero-based offset from
substring(s, from) == SubSeq(s, from + 1, Len(s))

\* p occurs in s at zero-based offset i
occursAt(s, p, i) ==
  /\ i + Len(p) =< Len(s)
  /\ (Len(p) = 0 \/ s[i + 1] = p[1])
  /\ SubSeq(s, i + 1, i + Len(p)) = p

\* s.startsWith(p)
startsWith(s, p) == occursAt(s, p, 0)

\* zero-based offsets at which p occurs in s
Occurrences(s, p) == {i \in 0..(Len(s) - Len(p)) : occursAt(s, p, i)}

\* s.indexOf(p, from), -1 when absent
RECURSIVE indexOfFrom(_, _, _)
indexOfFrom(s, p, from) ==
  IF from + Len(p) > Len(s) THEN -1
  ELSE IF occursAt(s, p, from) THEN from
  ELSE indexOfFrom(s, p, from + 1)

\* s.indexOf(p), -1 when absent
indexOf(s, p) == indexOfFrom(s, p, 0)

\* s.lastIndexOf(p, from), -1 when absent
RECURSIVE lastIndexOfFrom(_, _, _)
lastIndexOfFrom(s, p, from) ==
  IF from < 0 THEN -1
  ELSE IF occursAt(s, p, from) THEN from
  ELSE lastIndexOfFrom(s, p, from - 1)

\* s.lastIndexOf(p), -1 when absent
lastIndexOf(s, p) == lastIndexOfFrom(s, p, Len(s) - Len(p))

\* s.includes(p)
includes(s, p) == indexOf(s, p) # -1

\* one-based position of the first character at or after i that is not white
\* space, Len(s) + 1 when none
RECURSIVE skipSpaceUp(_, _)
skipSpaceUp(s, i) ==
  IF i > Len(s) THEN i
  ELSE IF s[i] \in WhiteSpace THEN skipSpaceUp(s, i + 1)
  ELSE i

\* one-based position of the last character at or before i that is not white
\* space, 0 when none
RECURSIVE skipSpaceDown(_, _)
skipSpaceDown(s, i) ==
  IF i < 1 THEN i
  ELSE IF s[i] \in WhiteSpace THEN skipSpaceDown(s, i - 1)
  ELSE i

\* s.trim()
trim(s) == SubSeq(s, skipSpaceUp(s, 1), skipSpaceDown(s, Len(s)))

\* s.split('\n') from one-based position i on, the current line starting at
\* one-based position start
RECURSIVE splitFrom(_, _, _)
splitFrom(s, start, i) ==
  IF i > Len(s) THEN <<SubSeq(s, start, Len(s))>>
  ELSE IF s[i] = NL THEN <<SubSeq(s, start, i - 1)>> \o splitFrom(s, i + 1, i + 1)
  ELSE splitFrom(s, start, i + 1)

\* s.split('\n'): always at least one line
split(s) == splitFrom(s, 1, 1)

\* lines.join(sep)
RECURSIVE join(_, _)
join(lines, sep) ==
  IF Len(lines) = 0 THEN <<>>
  ELSE IF Len(lines) = 1 THEN lines[1]
  ELSE lines[1] \o sep \o join(Tail(lines), sep)

\* lines.slice(from, to) with zero-based from, exclusive to
slice(lines, from, to) == SubSeq(lines, from + 1, to)

(***************************************************************************)
(* contentParser.ts                                                        *)
(***************************************************************************)
DefaultName == <<"T", "h", "e", "r", "a", "p", "i", "s", "t">>

THERAPIST_PREFIX ==
  <<">", " ", "*", "*", "T", "h", "e", "r", "a", "p", "i", "s", "t", ":", "*", "*">>

\* `> **${name}:**`
getTherapistPrefix(name) == <<">", " ", "*", "*">> \o name \o <<":", "*", "*">>

\* the for loop of getNewContent: first line index i (zero-based) from i on
\* whose trimmed text is neither empty nor starts with '>', -1 when none
RECURSIVE userContentStartFrom(_, _)
userContentStartFrom(lines, i) ==
  IF i >= Len(lines) THEN -1
  ELSE LET trimmed == trim(lines[i + 1])
       IN  IF trimmed = <<>> \/ startsWith(trimmed, <<">">>)
           THEN userContentStartFrom(lines, i + 1)
           ELSE i

\* getNewContent anchored on the first marker instead of the last
getNewContent_FirstMarker(fullContent) ==
  LET lastResponseIndex == indexOf(fullContent, THERAPIST_PREFIX)
  IN  IF lastResponseIndex = -1 THEN trim(fullContent)
      ELSE LET afterPrefix == substring(fullContent, lastResponseIndex)
               lines == split(afterPrefix)
               userContentStart == userContentStartFrom(lines, 0)
           IN  IF userContentStart = -1 THEN <<>>
               ELSE trim(join(slice(lines, userContentStart, Len(lines)), <<NL>>))

\* getNewContent anchored on blockquote syntax instead of the marker
getNewContent_AnyQuote(fullContent) ==
  LET lastResponseIndex == lastIndexOf(fullContent, <<">", " ">>)
  IN  IF lastResponseIndex = -1 THEN trim(fullContent)
      ELSE LET afterPrefix == substring(fullContent, lastResponseIndex)
               lines == split(afterPrefix)
               userContentStart == userContentStartFrom(lines, 0)
           IN  IF userContentStart = -1 THEN <<>>
               ELSE trim(join(slice(lines, userContentStart, Len(lines)), <<NL>>))

getNewContent(fullContent) ==
  LET lastResponseIndex == lastIndexOf(fullContent, THERAPIST_PREFIX)
  IN  IF lastResponseIndex = -1 THEN trim(fullContent)
      ELSE LET afterPrefix == substring(fullContent, lastResponseIndex)
               lines == split(afterPrefix)
               userContentStart == userContentStartFrom(lines, 0)
           IN  IF userContentStart = -1 THEN <<>>
               ELSE trim(join(slice(lines, userContentStart, Len(lines)), <<NL>>))

isTherapistResponse(content) == startsWith(trim(content), THERAPIST_PREFIX)

\* the map callback quoting the first line only
blockquoteLine_FirstOnly(prefix, line, i) ==
  IF i = 0 THEN prefix \o <<" ">> \o line
  ELSE line

\* the map callback of formatResponse, i zero-based
blockquoteLine(prefix, line, i) ==
  IF i = 0 THEN prefix \o <<" ">> \o line
  ELSE IF trim(line) = <<>> THEN <<">">>
  ELSE <<">", " ">> \o line

formatResponse(response, therapistName) ==
  LET prefix == getTherapistPrefix(therapistName)
      lines == split(response)
      blockquoted ==
        join([i \in 1..Len(lines) |-> blockquoteLine(prefix, lines[i], i - 1)], <<NL>>)
  IN  <<NL, NL>> \o blockquoted \o <<NL, NL>>

JOURNAL_HEADERS ==
  << <<"#", " ", "J", "o", "u", "r", "n", "a", "l">>,
     <<"#", "#", " ", "J", "o", "u", "r", "n", "a", "l">>,
     <<"#", "#", "#", " ", "J", "o", "u", "r", "n", "a", "l">> >>

\* header.split(' ')[0].length: the number of characters before the first blank
headerLevelOf(header) ==
  LET i == indexOf(header, <<" ">>) IN IF i = -1 THEN Len(header) ELSE i

\* the for-of loop of getJournalContent over JOURNAL_HEADERS[k..], carrying
\* [journalStart, headerLevel]
RECURSIVE findJournalHeader(_, _, _)
findJournalHeader(fullContent, k, acc) ==
  IF k > Len(JOURNAL_HEADERS) THEN acc
  ELSE LET header == JOURNAL_HEADERS[k]
           idx == indexOf(fullContent, header)
       IN  IF idx # -1 /\ (acc.journalStart = -1 \/ idx < acc.journalStart)
           THEN findJournalHeader(fullContent, k + 1,
                  [journalStart |-> idx, headerLevel |-> headerLevelOf(header)])
           ELSE findJournalHeader(fullContent, k + 1, acc)

\* line.match(/^(#{1,6})\s/): the length of group 1, 0 when there is no match
headerMatch(line) ==
  LET hashes == {n \in 0..Len(line) : \A j \in 1..n : line[j] = "#"}
      run == Max(hashes)
  IN  IF run >= 1 /\ run =< 6 /\ Len(line) > run /\ line[run + 1] \in WhiteSpace
      THEN run ELSE 0

\* the second for loop of getJournalContent: the first i >= from (zero-based)
\* whose line is a header of the same or a higher level, else lines.length
RECURSIVE journalEndFrom(_, _, _)
journalEndFrom(lines, i, headerLevel) ==
  IF i >= Len(lines) THEN Len(lines)
  ELSE IF headerMatch(lines[i + 1]) # 0 /\ headerMatch(lines[i + 1]) =< headerLevel
       THEN i
       ELSE journalEndFrom(lines, i + 1, headerLevel)

\* returns [isNull, text]: isNull stands for the null result
getJournalContent(fullContent) ==
  LET found == findJournalHeader(fullContent, 1, [journalStart |-> -1, headerLevel |-> 0])
  IN  IF found.journalStart = -1 THEN [isNull |-> TRUE, text |-> <<>>]
      ELSE LET afterHeader == substring(fullContent, found.journalStart)
               lines == split(afterHeader)
               endIndex == journalEndFrom(lines, 1, found.headerLevel)
           IN  [isNull |-> FALSE,
                text |-> trim(join(slice(lines, 1, endIndex), <<NL>>))]

\* String.prototype.toLowerCase on the model's alphabet
LowerOf ==
  ("A" :> "a") @@ ("B" :> "b") @@ ("C" :> "c") @@ ("D" :> "d") @@ ("E" :> "e") @@ ("F" :> "f") @@ ("G" :> "g") @@ ("H" :> "h") @@ ("I" :> "i") @@ ("J" :> "j") @@ ("K" :> "k") @@ ("L" :> "l") @@ ("M" :> "m")
  @@ ("N" :> "n") @@ ("O" :> "o") @@ ("P" :> "p") @@ ("Q" :> "q") @@ ("R" :> "r") @@ ("S" :> "s") @@ ("T" :> "t") @@ ("U" :> "u") @@ ("V" :> "v") @@ ("W" :> "w") @@ ("X" :> "x") @@ ("Y" :> "y") @@ ("Z" :> "z")

toLowerCase(s) == [i \in 1..Len(s) |-> IF s[i] \in DOMAIN LowerOf THEN LowerOf[s[i]] ELSE s[i]]

EngagementCues ==
  {  <<"y", "o", "u", " ", "k", "n", "o", "w">>,
     <<"r", "i", "g", "h", "t", "?">>,
     <<"w", "h", "a", "t", " ", "d", "o", " ", "y", "o", "u", " ", "t", "h", "i", "n", "k">>,
     <<"a", "n", "y", " ", "t", "h", "o", "u", "g", "h", "t", "s">>,
     <<"h", "e", "l", "p", " ", "m", "e">>,
     <<"i", " ", "n", "e", "e", "d">>,
     <<"s", "h", "o", "u", "l", "d", " ", "i">>,
     <<"c", "o", "u", "l", "d", " ", "i">>,
     <<"w", "h", "a", "t", " ", "s", "h", "o", "u", "l", "d">>,
     <<"w", "h", "a", "t", " ", "w", "o", "u", "l", "d">>,
     <<"a", "d", "v", "i", "c", "e">>,
     <<"s", "u", "g", "g", "e", "s", "t">>,
     <<"o", "p", "i", "n", "i", "o", "n">>,
     <<"p", "e", "r", "s", "p", "e", "c", "t", "i", "v", "e">>,
     <<"t", "h", "o", "u", "g", "h", "t", "s", "?">>,
     <<"i", "d", "e", "a", "s", "?">> }

\* hasEngagementCue comparing the cues with the text as typed
hasEngagementCue_CaseSensitive(content) ==
  LET lowerContent == content
  IN  \/ includes(content, <<"?">>)
      \/ \E cue \in EngagementCues : includes(lowerContent, cue)

hasEngagementCue(content) ==
  LET lowerContent == toLowerCase(content)
  IN  \/ includes(content, <<"?">>)
      \/ \E cue \in EngagementCues : includes(lowerContent, cue)

(***************************************************************************)
(* Bounded inputs: labels, raw replies, user texts and starting documents. *)
(***************************************************************************)
CoachName == <<"C", "o", "a", "c", "h">>

\* values of settings.therapistName
Labels == {DefaultName, CoachName}

ReplyOk == <<"o", "k">>

\* a reply with a paragraph break
ReplyParagraphs == <<"a", NL, NL, "b">>

\* a reply of two lines
ReplyLines == <<"h", "i", NL, "y", "o">>

Replies == {ReplyOk, ReplyParagraphs, ReplyLines}

UserPlain == <<"S", "a", "d", ".">>

\* surrounded by white space and spanning two lines
UserPadded == <<" ", NL, "H", "m", NL, "Y", "e", "s", " ", NL>>

\* the user opens with a quotation of their own
UserQuote == <<">", " ", "q", NL, "B", "u", "t">>

\* the user pastes the attribution marker into their own text
UserEcho == <<"r", "e", " ", ">", " ", "*", "*", "T", "h", "e", "r", "a", "p", "i", "s", "t", ":", "*", "*", " ", "x">>

UserTexts == {UserPlain, UserPadded, UserQuote, UserEcho}

DocEmpty == <<>>

DocPlain == <<"B", "a", "d", " ", "d", "a", "y", ".">>

\* a user-authored blockquote, no attribution marker
DocUserQuote == <<"Q", ":", NL, NL, ">", " ", "q", NL, NL, "O", "k", ".">>

\* an earlier exchange: entry, response, answer
DocExchange == <<"B", "a", "d", ".", NL, NL, ">", " ", "*", "*", "T", "h", "e", "r", "a", "p", "i", "s", "t", ":", "*", "*", " ", "W", "h", "y", "?", NL, NL, "B", "o", "s", "s", ".">>

StartDocs == {DocEmpty, DocPlain, DocUserQuote, DocExchange}

\* number of pieces appended to a starting document
MaxParts == 2

(***************************************************************************)
(* Parser harness: a document grows at its end by user text and by         *)
(* formatted responses; the parser functions are applied to it.            *)
(***************************************************************************)
VARIABLES
  pName,        \* the configured label (settings.therapistName)
  pText,        \* the document text
  pHist,        \* the pieces appended so far: [kind, label, body]
  pFormatted,   \* the last output of formatResponse
  pExtracted,   \* getNewContent was applied to the current pText
  pDelta,       \* its result
  pDetected,    \* isTherapistResponse was applied to the current pFormatted
  pIsResponse   \* its result

pvars == <<pName, pText, pHist, pFormatted, pExtracted, pDelta, pDetected, pIsResponse>>

VARIABLES
  lines,            \* the editor's document, line by line
  cursorLine,       \* editor.getCursor().line
  enabled,          \* settings.enabled
  agentId,          \* settings.agentId
  therapistName,    \* settings.therapistName
  debounceArmed,    \* the debounced handler has a timer running
  isProcessing,     \* TherapistPlugin.isProcessing
  inflight,         \* sendMessage calls awaiting their outcome: [content, asking]
  nCalls,           \* number of sendMessage calls issued
  nTyped,           \* number of lines typed by the user
  editedSinceSend,  \* the user typed after the most recent call was issued
  insertedSinceSend, \* the cycle of the most recent call inserted a response
  lastStep          \* how the most recent handler step ended

cvars == <<lines, cursorLine, enabled, agentId, therapistName, debounceArmed,
           isProcessing, inflight, nCalls, nTyped, editedSinceSend,
           insertedSinceSend, lastStep>>

VARIABLES
  agents,           \* settings.agents: [id, name, enabled, order]
  multiAgentMode,   \* settings.multiAgentMode
  primaryAgentId,   \* settings.primaryAgentId
  mAgents,          \* the agents argument of the running getAgentResponses
  mCalls,           \* its sendMessage calls, one per agent: [status, content, reply]
  mAccum,           \* accumulatedContext
  mResponses,       \* responses of the sequential branch
  mInserted,        \* combinedResponse of the most recent finished cycle
  mCycles,          \* number of cycles started
  mOrder            \* the agents of the running cycle in the order their calls settled

mvars == <<agents, multiAgentMode, primaryAgentId, mAgents, mCalls, mAccum,
           mResponses, mInserted, mCycles, mOrder>>

VARIABLES
  isIndexing,          \* TherapistPlugin.isIndexing
  indexQueue,          \* TherapistPlugin.indexQueue, in insertion order
  indexDebounceTimer,  \* the 5 s timer of queueFileForIndexing is running
  vaultRun,            \* the running vaultIndexer.indexVault: [phase, k, c, passages, added, tried]
  indexResult,         \* what the most recent indexVault returned
  batches,             \* the running processIndexQueue calls: [paths, phase, c]
  store,               \* passages of the archive, per file
  nModified,           \* number of modify/create events
  nRuns,               \* number of index-vault commands
  lastIndexStep        \* how the most recent indexing step ended

ivars == <<isIndexing, indexQueue, indexDebounceTimer, vaultRun, indexResult, batches, store,
           nModified, nRuns, lastIndexStep>>

VARIABLES
  kText,        \* the text argument of chunkText
  kPhase,       \* position of chunkText: "called", "loop" or "returned"
  kStart,       \* start
  kChunkIndex,  \* chunkIndex
  kChunks       \* chunks: [part, body, chunk]

kvars == <<kText, kPhase, kStart, kChunkIndex, kChunks>>

VARIABLES
  sFetch,    \* outcome of fetch: "rejects", "notOk" or "ok"
  sData,     \* the JSON body of the response: [hasMessages, messages]
  sPhase,    \* position of sendMessage: "called", "responded" or "settled"
  sResult    \* how sendMessage settled: [threw, defined, text]

svars == <<sFetch, sData, sPhase, sResult>>

VARIABLES
  fKind,     \* which function is called: "journal" or "cue"
  fInput,    \* its argument
  fApplied,  \* the call has returned
  fJournal,  \* what getJournalContent returned: [isNull, text]
  fCue       \* what hasEngagementCue returned

fvars == <<fKind, fInput, fApplied, fJournal, fCue>>

VARIABLES
  dLines,        \* the editor's document, line by line
  dEnabled,      \* settings.enabled
  dTimer,        \* ticks until the debounce timer fires, -1 when none is running
  dQuiet,        \* ticks since the last change event handed to the debounced handler
  dBurstEvents,  \* number of change events of the current burst
  dBurstCalls,   \* number of remote calls started by the current burst
  dProcessing,   \* TherapistPlugin.isProcessing
  dCalls,        \* the sendMessage calls issued: [content, enabled]
  dTyped         \* number of lines typed by the user

dvars == <<dLines, dEnabled, dTimer, dQuiet, dBurstEvents, dBurstCalls, dProcessing,
           dCalls, dTyped>>

\* the variables of the services next to the session
xvars == <<ivars, kvars, svars, fvars, dvars>>

\* no step of the services
XStill == UNCHANGED xvars

\* no step of the harness
PStill == UNCHANGED pvars

\* no step of the multi-agent orchestration
MStill == UNCHANGED mvars

\* no step of the controller
CStill == UNCHANGED cvars

PInit ==
  /\ pName \in Labels
  /\ pText \in StartDocs
  /\ pHist = <<>>
  /\ pFormatted = <<>>
  /\ pExtracted = FALSE
  /\ pDelta = <<>>
  /\ pDetected = FALSE
  /\ pIsResponse = FALSE

\* the plugin inserts formatResponse(raw, label) at the end of the document
PInsertResponse(raw, label) ==
  /\ Len(pHist) < MaxParts
  /\ pFormatted' = formatResponse(raw, label)
  /\ pText' = pText \o formatResponse(raw, label)
  /\ pHist' = Append(pHist, [kind |-> "response", label |-> label, body |-> raw])
  /\ pExtracted' = FALSE
  /\ pDetected' = FALSE
  /\ UNCHANGED <<pName, pDelta, pIsResponse>>
  /\ CStill
  /\ MStill
  /\ XStill

\* the user appends text at the end of the document
PTypeUser(u) ==
  /\ Len(pHist) < MaxParts
  /\ pText' = pText \o u
  /\ pHist' = Append(pHist, [kind |-> "user", label |-> <<>>, body |-> u])
  /\ pExtracted' = FALSE
  /\ UNCHANGED <<pName, pFormatted, pDelta, pDetected, pIsResponse>>
  /\ CStill
  /\ MStill
  /\ XStill

PExtract ==
  /\ ~pExtracted
  /\ pDelta' = getNewContent(pText)
  /\ pExtracted' = TRUE
  /\ UNCHANGED <<pName, pText, pHist, pFormatted, pDetected, pIsResponse>>
  /\ CStill
  /\ MStill
  /\ XStill

PDetect ==
  /\ ~pDetected
  /\ pFormatted # <<>>
  /\ pIsResponse' = isTherapistResponse(pFormatted)
  /\ pDetected' = TRUE
  /\ UNCHANGED <<pName, pText, pHist, pFormatted, pExtracted, pDelta>>
  /\ CStill
  /\ MStill
  /\ XStill

PNext ==
  \/ \E raw \in Replies, label \in Labels : PInsertResponse(raw, label)
  \/ \E u \in UserTexts : PTypeUser(u)
  \/ PExtract
  \/ PDetect

\* the harness at rest, for the other specifications
PQuiet ==
  /\ pName = DefaultName
  /\ pText = <<>>
  /\ pHist = <<>>
  /\ pFormatted = <<>>
  /\ pExtracted = FALSE
  /\ pDelta = <<>>
  /\ pDetected = FALSE
  /\ pIsResponse = FALSE

(***************************************************************************)
(* Session controller (main.ts): the editor, the settings, the debounced   *)
(* change handler and handleEditorChange around the remote call.           *)
(***************************************************************************)
\* the reply that means "no reply"
Sentinel == <<"[", "l", "i", "s", "t", "e", "n", "i", "n", "g", "]">>

\* a reply of white space only
ReplyBlank == <<" ">>

\* what sendMessage may resolve to in the controller
AgentReplies == {ReplyOk, Sentinel, ReplyBlank}

\* a line the user types that carries an engagement cue
UserAsk == <<"W", "h", "y", "?">>

TypedLines == {UserAsk}

\* a Journal section with one entry
EdJournal == << <<"#", "#", " ", "J", "o", "u", "r", "n", "a", "l">>, UserPlain >>

EdNoJournal == << <<"N", "o", "t", "e", "s">> >>

\* a Journal section followed by another top-level section
EdSections ==
  << <<"#", " ", "J", "o", "u", "r", "n", "a", "l">>, UserPlain,
     <<"#", " ", "O", "t", "h", "e", "r">> >>

StartEditors == {EdJournal, EdNoJournal, EdSections}

\* values of settings.agentId
AgentIds == {"", "agent-1"}

\* number of lines the user types
MaxTyped == 1

\* number of remote calls issued
MaxCalls == 2

\* editor.getValue()
getValue(ls) == join(ls, <<NL>>)

\* editor.getLine(n), n zero-based
getLine(ls, n) == ls[n + 1]

\* editor.setCursor({line, ch: getLine(line).length}); editor.replaceSelection(text):
\* the document after inserting text at the end of line `line`
replaceSelection(ls, line, text) ==
  LET parts == split(text)
  IN  SubSeq(ls, 1, line) \o <<getLine(ls, line) \o parts[1]>> \o Tail(parts)
        \o SubSeq(ls, line + 2, Len(ls))

\* the cursor line after that insertion
cursorAfter(line, text) == line + Len(split(text)) - 1

\* the 'editor-change' callback registered in onload: the timer state after it
onEditorChange(armed) ==
  IF ~enabled THEN armed
  ELSE IF agentId = "" THEN armed
  ELSE TRUE

CInit ==
  /\ lines \in StartEditors
  /\ cursorLine = Len(lines) - 1
  /\ enabled = TRUE
  /\ agentId \in AgentIds
  /\ therapistName \in Labels
  /\ debounceArmed = FALSE
  /\ isProcessing = FALSE
  /\ inflight = <<>>
  /\ nCalls = 0
  /\ nTyped = 0
  /\ editedSinceSend = FALSE
  /\ insertedSinceSend = FALSE
  /\ lastStep = "none"

\* the user presses Enter at the end of the cursor's line and types u
UserTypes(u) ==
  /\ nTyped < MaxTyped
  /\ lines' = replaceSelection(lines, cursorLine, <<NL>> \o u)
  /\ cursorLine' = cursorAfter(cursorLine, <<NL>> \o u)
  /\ debounceArmed' = onEditorChange(debounceArmed)
  /\ nTyped' = nTyped + 1
  /\ editedSinceSend' = TRUE
  /\ UNCHANGED <<enabled, agentId, therapistName, isProcessing, inflight,
                 nCalls, insertedSinceSend, lastStep>>
  /\ PStill
  /\ MStill
  /\ XStill

UserMovesCursor(l) ==
  /\ l # cursorLine
  /\ cursorLine' = l
  /\ UNCHANGED <<lines, enabled, agentId, therapistName, debounceArmed, isProcessing,
                 inflight, nCalls, nTyped, editedSinceSend,
                 insertedSinceSend, lastStep>>
  /\ PStill
  /\ MStill
  /\ XStill

\* the toggle-therapist command
toggleTherapist ==
  /\ enabled' = ~enabled
  /\ UNCHANGED <<lines, cursorLine, agentId, therapistName, debounceArmed, isProcessing,
                 inflight, nCalls, nTyped, editedSinceSend,
                 insertedSinceSend, lastStep>>
  /\ PStill
  /\ MStill
  /\ XStill

\* handleEditorChange without its reentrancy guard
handleEditorChange_NoGuard(forceRespond) ==
  LET fullContent == getValue(lines)
      journalContent == getJournalContent(fullContent)
      newContent == getNewContent(journalContent.text)
      hasEngagement == hasEngagementCue(newContent)
      skip(how) ==
        /\ lastStep' = how
        /\ UNCHANGED <<lines, cursorLine, isProcessing, inflight, nCalls,
                       editedSinceSend, insertedSinceSend>>
  IN  IF agentId = "" THEN skip("noAgent")
      ELSE IF journalContent.isNull \/ journalContent.text = <<>> THEN skip("noJournal")
      ELSE IF newContent = <<>> THEN skip("emptyDelta")
      ELSE IF isTherapistResponse(newContent) THEN skip("ownResponse")
      ELSE /\ nCalls < MaxCalls
           /\ isProcessing' = TRUE
           /\ inflight' = Append(inflight,
                [content |-> newContent, asking |-> (hasEngagement \/ forceRespond)])
           /\ nCalls' = nCalls + 1
           /\ editedSinceSend' = FALSE
           /\ insertedSinceSend' = FALSE
           /\ lastStep' = "started"
           /\ UNCHANGED <<lines, cursorLine>>

\* handleEditorChange without the test of newContent
handleEditorChange_NoDeltaGuard(forceRespond) ==
  LET fullContent == getValue(lines)
      journalContent == getJournalContent(fullContent)
      newContent == getNewContent(journalContent.text)
      hasEngagement == hasEngagementCue(newContent)
      skip(how) ==
        /\ lastStep' = how
        /\ UNCHANGED <<lines, cursorLine, isProcessing, inflight, nCalls,
                       editedSinceSend, insertedSinceSend>>
  IN  IF isProcessing THEN skip("dropped")
      ELSE IF agentId = "" THEN skip("noAgent")
      ELSE IF journalContent.isNull \/ journalContent.text = <<>> THEN skip("noJournal")
      ELSE IF isTherapistResponse(newContent) THEN skip("ownResponse")
      ELSE /\ nCalls < MaxCalls
           /\ isProcessing' = TRUE
           /\ inflight' = Append(inflight,
                [content |-> newContent, asking |-> (hasEngagement \/ forceRespond)])
           /\ nCalls' = nCalls + 1
           /\ editedSinceSend' = FALSE
           /\ insertedSinceSend' = FALSE
           /\ lastStep' = "started"
           /\ UNCHANGED <<lines, cursorLine>>

\* handleEditorChange up to its await; nothing but lastStep changes on an
\* early return
handleEditorChange(forceRespond) ==
  LET fullContent == getValue(lines)
      journalContent == getJournalContent(fullContent)
      newContent == getNewContent(journalContent.text)
      hasEngagement == hasEngagementCue(newContent)
      skip(how) ==
        /\ lastStep' = how
        /\ UNCHANGED <<lines, cursorLine, isProcessing, inflight, nCalls,
                       editedSinceSend, insertedSinceSend>>
  IN  IF isProcessing THEN skip("dropped")
      ELSE IF agentId = "" THEN skip("noAgent")
      ELSE IF journalContent.isNull \/ journalContent.text = <<>> THEN skip("noJournal")
      ELSE IF newContent = <<>> THEN skip("emptyDelta")
      ELSE IF isTherapistResponse(newContent) THEN skip("ownResponse")
      ELSE /\ nCalls < MaxCalls
           /\ isProcessing' = TRUE
           /\ inflight' = Append(inflight,
                [content |-> newContent, asking |-> (hasEngagement \/ forceRespond)])
           /\ nCalls' = nCalls + 1
           /\ editedSinceSend' = FALSE
           /\ insertedSinceSend' = FALSE
           /\ lastStep' = "started"
           /\ UNCHANGED <<lines, cursorLine>>

\* the debounce timer expires and runs the handler
debouncedHandler ==
  /\ debounceArmed
  /\ debounceArmed' = FALSE
  /\ handleEditorChange(FALSE)
  /\ UNCHANGED <<enabled, agentId, therapistName, nTyped>>
  /\ PStill
  /\ MStill
  /\ XStill

\* the trigger-therapist command
triggerTherapist ==
  /\ handleEditorChange(TRUE)
  /\ UNCHANGED <<enabled, agentId, therapistName, debounceArmed, nTyped>>
  /\ PStill
  /\ MStill
  /\ XStill

\* sendMessage number i resolves with response: the rest of the try block and
\* the finally block
handleEditorChangeResolved(i, response) ==
  LET trimmedResponse == trim(response)
      text == formatResponse(response, therapistName)
  IN  /\ i \in 1..Len(inflight)
      /\ inflight' = SubSeq(inflight, 1, i - 1) \o SubSeq(inflight, i + 1, Len(inflight))
      /\ IF trimmedResponse # <<>> /\ trimmedResponse # Sentinel
         THEN /\ lines' = replaceSelection(lines, cursorLine, text)
              /\ cursorLine' = cursorAfter(cursorLine, text)
              /\ debounceArmed' = onEditorChange(debounceArmed)
              /\ insertedSinceSend' = TRUE
              /\ lastStep' = "inserted"
         ELSE /\ lastStep' = "silent"
              /\ UNCHANGED <<lines, cursorLine, debounceArmed, insertedSinceSend>>
      /\ isProcessing' = FALSE
      /\ UNCHANGED <<enabled, agentId, therapistName, nCalls, nTyped,
                     editedSinceSend>>
      /\ PStill
      /\ MStill
      /\ XStill

\* the catch block without the finally block: the flag stays set
handleEditorChangeRejected_NoFinally(i) ==
  /\ i \in 1..Len(inflight)
  /\ inflight' = SubSeq(inflight, 1, i - 1) \o SubSeq(inflight, i + 1, Len(inflight))
  /\ lastStep' = "failed"
  /\ isProcessing' = isProcessing
  /\ UNCHANGED <<lines, cursorLine, enabled, agentId, therapistName, debounceArmed,
                 nCalls, nTyped, editedSinceSend, insertedSinceSend>>
  /\ PStill
  /\ MStill
  /\ XStill

\* sendMessage number i throws and there is no catch block: the finally
\* block runs and the rejection goes on to the caller
handleEditorChangeRejected_NoCatch(i) ==
  /\ i \in 1..Len(inflight)
  /\ inflight' = SubSeq(inflight, 1, i - 1) \o SubSeq(inflight, i + 1, Len(inflight))
  /\ lastStep' = "unhandled"
  /\ isProcessing' = FALSE
  /\ UNCHANGED <<lines, cursorLine, enabled, agentId, therapistName, debounceArmed,
                 nCalls, nTyped, editedSinceSend, insertedSinceSend>>
  /\ PStill
  /\ MStill
  /\ XStill

\* sendMessage number i throws: the catch block and the finally block
handleEditorChangeRejected(i) ==
  /\ i \in 1..Len(inflight)
  /\ inflight' = SubSeq(inflight, 1, i - 1) \o SubSeq(inflight, i + 1, Len(inflight))
  /\ lastStep' = "failed"
  /\ isProcessing' = FALSE
  /\ UNCHANGED <<lines, cursorLine, enabled, agentId, therapistName, debounceArmed,
                 nCalls, nTyped, editedSinceSend, insertedSinceSend>>
  /\ PStill
  /\ MStill
  /\ XStill

CNext ==
  \/ \E u \in TypedLines : UserTypes(u)
  \/ \E l \in {0, Len(lines) - 1} : UserMovesCursor(l)
  \/ debouncedHandler
  \/ triggerTherapist
  \/ \E i \in 1..Len(inflight), r \in AgentReplies : handleEditorChangeResolved(i, r)
  \/ \E i \in 1..Len(inflight) : handleEditorChangeRejected(i)

\* the controller at rest, for the other specifications
CQuiet ==
  /\ lines = EdJournal
  /\ cursorLine = 0
  /\ enabled = TRUE
  /\ agentId = ""
  /\ therapistName = DefaultName
  /\ debounceArmed = FALSE
  /\ isProcessing = FALSE
  /\ inflight = <<>>
  /\ nCalls = 0
  /\ nTyped = 0
  /\ editedSinceSend = FALSE
  /\ insertedSinceSend = FALSE
  /\ lastStep = "none"

(***************************************************************************)
(* Multi-agent orchestration (the main.ts with getEnabledAgents and        *)
(* getAgentResponses): one cycle invokes every enabled agent.              *)
(***************************************************************************)
NameA == <<"A">>

NameB == <<"B">>

AgentA(en, ord) == [id |-> "a", name |-> NameA, enabled |-> en, order |-> ord]

AgentB(en, ord) == [id |-> "b", name |-> NameB, enabled |-> en, order |-> ord]

\* values of settings.agents
AgentLists ==
  { <<>>,
    <<AgentA(TRUE, 1)>>,
    <<AgentA(TRUE, 1), AgentB(TRUE, 2)>>,
    <<AgentA(TRUE, 2), AgentB(TRUE, 1)>>,
    <<AgentA(TRUE, 1), AgentB(TRUE, 1)>>,
    <<AgentA(FALSE, 1), AgentB(TRUE, 2)>> }

\* values of settings.multiAgentMode
Modes == {"single", "sequential", "parallel"}

\* values of settings.primaryAgentId
PrimaryIds == {"", "b"}

\* what sendMessage may resolve to in the orchestration
MultiReplies == {ReplyOk, Sentinel, ReplyBlank, <<>>}

DocOneLine == << UserPlain >>

DocTwoLines == << UserPlain, UserAsk >>

MultiEditors == {DocOneLine, DocTwoLines}

\* number of multi-agent cycles started
MaxCycles == 2

\* insertion of x into a list sorted by order, after the elements that do
\* not compare greater (Array.prototype.sort is stable)
RECURSIVE insertByOrder(_, _)
insertByOrder(sorted, x) ==
  IF sorted = <<>> THEN <<x>>
  ELSE IF Head(sorted).order - x.order > 0 THEN <<x>> \o sorted
  ELSE <<Head(sorted)>> \o insertByOrder(Tail(sorted), x)

\* seq.sort((a, b) => a.order - b.order)
RECURSIVE sortByOrder(_)
sortByOrder(seq) ==
  IF seq = <<>> THEN <<>>
  ELSE insertByOrder(sortByOrder(SubSeq(seq, 1, Len(seq) - 1)), seq[Len(seq)])

getEnabledAgents ==
  IF multiAgentMode = "single"
  THEN LET primary == SelectSeq(agents, LAMBDA a : a.id = primaryAgentId)
       IN  IF primary # <<>> THEN <<Head(primary)>>
           ELSE IF agents = <<>> THEN <<>> ELSE <<Head(agents)>>
  ELSE sortByOrder(SelectSeq(agents, LAMBDA a : a.enabled))

\* the entry without the agent's name
transcriptEntry_NoName(name, response) ==
  <<NL, NL>> \o response

\* `\n\n[${agent.name}]: ${response}`
transcriptEntry(name, response) ==
  <<NL, NL, "[">> \o name \o <<"]", ":", " ">> \o response

\* responses.filter(r => r.content.trim()).map(r => r.content).join('\n\n');
\* filter is SelectSeq
combineResponses(responses) ==
  join([k \in 1..Len(SelectSeq(responses, LAMBDA r : trim(r.content) # <<>>)) |->
          SelectSeq(responses, LAMBDA r : trim(r.content) # <<>>)[k].content],
       <<NL, NL>>)

\* the results taken in the order the calls settled instead
parallelResponses_CompletionOrder(calls) ==
  LET last == CHOOSE k \in 1..Len(calls) : \A j \in 1..Len(mOrder) : mOrder[j] # k
      settled == Append(mOrder, last)
  IN  [j \in 1..Len(calls) |->
         [agentId |-> mAgents[settled[j]].id, name |-> mAgents[settled[j]].name,
          content |-> IF calls[settled[j]].status = "ok"
                      THEN calls[settled[j]].reply ELSE <<>>]]

\* what Promise.all(promises) resolves to once every call has settled
parallelResponses(calls) ==
  [k \in 1..Len(calls) |->
     [agentId |-> mAgents[k].id, name |-> mAgents[k].name,
      content |-> IF calls[k].status = "ok" THEN calls[k].reply ELSE <<>>]]

PendingCall(content) == [status |-> "pending", content |-> content, reply |-> <<>>]

NoCall == [status |-> "none", content |-> <<>>, reply |-> <<>>]

MInit ==
  /\ agents \in AgentLists
  /\ multiAgentMode \in Modes
  /\ primaryAgentId \in PrimaryIds
  /\ mAgents = <<>>
  /\ mCalls = <<>>
  /\ mAccum = <<>>
  /\ mResponses = <<>>
  /\ mInserted = <<>>
  /\ mCycles = 0
  /\ mOrder = <<>>
  /\ lines \in MultiEditors
  /\ cursorLine \in 0..(Len(lines) - 1)
  /\ enabled = TRUE
  /\ agentId = ""
  /\ therapistName = DefaultName
  /\ debounceArmed = FALSE
  /\ isProcessing = FALSE
  /\ inflight = <<>>
  /\ nCalls = 0
  /\ nTyped = 0
  /\ editedSinceSend = FALSE
  /\ insertedSinceSend = FALSE
  /\ lastStep = "none"

\* the controller variables the orchestration leaves alone
MRest ==
  UNCHANGED <<enabled, agentId, therapistName, debounceArmed, inflight, nCalls, nTyped, editedSinceSend, insertedSinceSend,
              agents, multiAgentMode, primaryAgentId, pvars, xvars>>

\* the handler issuing the calls of every agent at once in every mode
multiHandleEditorChange_AllAtOnce ==
  LET enabledAgents == getEnabledAgents
      content == getValue(lines)
      newContent == getNewContent(content)
      skip(how) ==
        /\ lastStep' = how
        /\ UNCHANGED <<lines, cursorLine, isProcessing, mAgents, mCalls, mAccum,
                       mResponses, mInserted, mCycles, mOrder>>
  IN  /\ MRest
      /\ IF isProcessing THEN skip("dropped")
         ELSE IF Len(enabledAgents) = 0 THEN skip("noAgent")
         ELSE IF newContent = <<>> THEN skip("emptyDelta")
         ELSE IF isTherapistResponse(newContent) THEN skip("ownResponse")
         ELSE /\ mCycles < MaxCycles
              /\ mCycles' = mCycles + 1
              /\ isProcessing' = TRUE
              /\ mAgents' = enabledAgents
              /\ mResponses' = <<>>
              /\ mAccum' = newContent
              /\ mCalls' = [k \in 1..Len(enabledAgents) |->
                              PendingCall(newContent)]
              /\ mOrder' = <<>>
              /\ lastStep' = "started"
              /\ UNCHANGED <<lines, cursorLine, mInserted>>

\* handleEditorChange of the multi-agent main.ts up to the first await of
\* getAgentResponses
multiHandleEditorChange ==
  LET enabledAgents == getEnabledAgents
      content == getValue(lines)
      newContent == getNewContent(content)
      skip(how) ==
        /\ lastStep' = how
        /\ UNCHANGED <<lines, cursorLine, isProcessing, mAgents, mCalls, mAccum,
                       mResponses, mInserted, mCycles, mOrder>>
  IN  /\ MRest
      /\ IF isProcessing THEN skip("dropped")
         ELSE IF Len(enabledAgents) = 0 THEN skip("noAgent")
         ELSE IF newContent = <<>> THEN skip("emptyDelta")
         ELSE IF isTherapistResponse(newContent) THEN skip("ownResponse")
         ELSE /\ mCycles < MaxCycles
              /\ mCycles' = mCycles + 1
              /\ isProcessing' = TRUE
              /\ mAgents' = enabledAgents
              /\ mResponses' = <<>>
              /\ mAccum' = newContent
              /\ mCalls' = [k \in 1..Len(enabledAgents) |->
                              IF multiAgentMode = "parallel" \/ k = 1
                              THEN PendingCall(newContent) ELSE NoCall]
              /\ mOrder' = <<>>
              /\ lastStep' = "started"
              /\ UNCHANGED <<lines, cursorLine, mInserted>>

\* the rest of handleEditorChange once getAgentResponses has returned responses
insertCombined(responses) ==
  LET combinedResponse == combineResponses(responses)
      text == formatResponse(combinedResponse, DefaultName)
  IN  /\ IF Len(responses) > 0 /\ combinedResponse # <<>>
         THEN /\ lines' = replaceSelection(lines, cursorLine, text)
              /\ cursorLine' = cursorAfter(cursorLine, text)
              /\ lastStep' = "inserted"
         ELSE /\ lastStep' = "silent"
              /\ UNCHANGED <<lines, cursorLine>>
      /\ mInserted' = combinedResponse
      /\ isProcessing' = FALSE

\* the catch block of handleEditorChange: getAgentResponses threw
abortCycle ==
  /\ lastStep' = "failed"
  /\ mInserted' = <<>>
  /\ isProcessing' = FALSE
  /\ UNCHANGED <<lines, cursorLine>>

\* the call of agent i resolves with response
getAgentResponsesResolved(i, response) ==
  LET calls == [mCalls EXCEPT ![i] = [status |-> "ok", content |-> @.content,
                                      reply |-> response]]
      pushed == Append(mResponses,
                  [agentId |-> mAgents[i].id, name |-> mAgents[i].name,
                   content |-> response])
      context == IF trim(response) # <<>>
                 THEN mAccum \o transcriptEntry(mAgents[i].name, response)
                 ELSE mAccum
  IN  /\ i \in 1..Len(mCalls)
      /\ mCalls[i].status = "pending"
      /\ isProcessing
      /\ MRest
      /\ mOrder' = Append(mOrder, i)
      /\ UNCHANGED <<mAgents, mCycles>>
      /\ IF multiAgentMode = "parallel"
         THEN /\ mCalls' = calls
              /\ UNCHANGED <<mAccum, mResponses>>
              /\ IF \A k \in 1..Len(calls) : calls[k].status # "pending"
                 THEN insertCombined(parallelResponses(calls))
                 ELSE UNCHANGED <<lines, cursorLine, isProcessing, mInserted, lastStep>>
         ELSE /\ mResponses' = pushed
              /\ mAccum' = context
              /\ IF i < Len(mAgents)
                 THEN /\ mCalls' = [calls EXCEPT ![i + 1] = PendingCall(context)]
                      /\ UNCHANGED <<lines, cursorLine, isProcessing, mInserted, lastStep>>
                 ELSE /\ mCalls' = calls
                      /\ insertCombined(pushed)

\* the call of agent i throws and nothing catches it before handleEditorChange
getAgentResponsesRejected_NoCatch(i) ==
  LET calls == [mCalls EXCEPT ![i] = [status |-> "failed", content |-> @.content,
                                      reply |-> <<>>]]
  IN  /\ i \in 1..Len(mCalls)
      /\ mCalls[i].status = "pending"
      /\ isProcessing
      /\ MRest
      /\ mOrder' = Append(mOrder, i)
      /\ UNCHANGED <<mAgents, mCycles, mAccum, mResponses>>
      /\ mCalls' = calls
      /\ abortCycle

\* the call of agent i throws and the sequential loop stops at it
getAgentResponsesRejected_StopsChain(i) ==
  LET calls == [mCalls EXCEPT ![i] = [status |-> "failed", content |-> @.content,
                                      reply |-> <<>>]]
  IN  /\ i \in 1..Len(mCalls)
      /\ mCalls[i].status = "pending"
      /\ isProcessing
      /\ MRest
      /\ mOrder' = Append(mOrder, i)
      /\ UNCHANGED <<mAgents, mCycles>>
      /\ UNCHANGED <<mAccum, mResponses>>
      /\ mCalls' = calls
      /\ IF multiAgentMode = "parallel"
         THEN IF \A k \in 1..Len(calls) : calls[k].status # "pending"
              THEN insertCombined(parallelResponses(calls))
              ELSE UNCHANGED <<lines, cursorLine, isProcessing, mInserted, lastStep>>
         ELSE insertCombined(mResponses)

\* the call of agent i throws: the catch block of its branch
getAgentResponsesRejected(i) ==
  LET calls == [mCalls EXCEPT ![i] = [status |-> "failed", content |-> @.content,
                                      reply |-> <<>>]]
  IN  /\ i \in 1..Len(mCalls)
      /\ mCalls[i].status = "pending"
      /\ isProcessing
      /\ MRest
      /\ mOrder' = Append(mOrder, i)
      /\ UNCHANGED <<mAgents, mCycles>>
      /\ UNCHANGED <<mAccum, mResponses>>
      /\ IF multiAgentMode = "parallel"
         THEN /\ mCalls' = calls
              /\ IF \A k \in 1..Len(calls) : calls[k].status # "pending"
                 THEN insertCombined(parallelResponses(calls))
                 ELSE UNCHANGED <<lines, cursorLine, isProcessing, mInserted, lastStep>>
         ELSE IF i < Len(mAgents)
              THEN /\ mCalls' = [calls EXCEPT ![i + 1] = PendingCall(mAccum)]
                   /\ UNCHANGED <<lines, cursorLine, isProcessing, mInserted, lastStep>>
              ELSE /\ mCalls' = calls
                   /\ insertCombined(mResponses)

MNext ==
  \/ multiHandleEditorChange
  \/ \E i \in 1..Len(mCalls), r \in MultiReplies : getAgentResponsesResolved(i, r)
  \/ \E i \in 1..Len(mCalls) : getAgentResponsesRejected(i)

\* the orchestration at rest, for the other specifications
MQuiet ==
  /\ agents = <<>>
  /\ multiAgentMode = "single"
  /\ primaryAgentId = ""
  /\ mAgents = <<>>
  /\ mCalls = <<>>
  /\ mAccum = <<>>
  /\ mResponses = <<>>
  /\ mInserted = <<>>
  /\ mCycles = 0
  /\ mOrder = <<>>

(***************************************************************************)
(* Vault indexing: the index-vault command, the auto-index queue of        *)
(* main.ts and VaultIndexer.  Every await of a remote request is a step.   *)
(***************************************************************************)
FileA == "a.md"

FileB == "b.md"

\* app.vault.getMarkdownFiles()
MarkdownFiles == <<FileA, FileB>>

\* chunkText(content, file.path).length for the content of each file
chunksOf(f) == IF f = FileA THEN 1 ELSE 2

\* number of modify/create events
MaxModified == 2

\* number of index-vault commands
MaxRuns == 2

\* no indexVault is running
NoRun == [phase |-> "idle", k |-> 0, c |-> 0, passages |-> 0, added |-> 0, tried |-> <<>>]

\* indexVault has not returned yet
NoResult == [returned |-> FALSE, files |-> 0, passages |-> 0, added |-> 0, tried |-> <<>>]

\* a run that has the archive: totalPassages is passages; added counts the
\* addPassage requests of the run that succeeded, tried lists the files
\* given to indexFile
StartedRun(phase) ==
  [phase |-> phase, k |-> 0, c |-> 0, passages |-> 0, added |-> 0, tried |-> <<>>]

EmptyStore == [f \in {FileA, FileB} |-> 0]

\* the plugin after onload with autoIndex on
IInit ==
  /\ isIndexing = FALSE
  /\ indexQueue = <<>>
  /\ indexDebounceTimer = FALSE
  /\ vaultRun = NoRun
  /\ indexResult = NoResult
  /\ batches = <<>>
  /\ store \in {EmptyStore, [EmptyStore EXCEPT ![FileA] = 1]}
  /\ nModified = 0
  /\ nRuns = 0
  /\ lastIndexStep = "none"
  /\ lines = EdJournal
  /\ cursorLine = 0
  /\ enabled = TRUE
  /\ agentId \in AgentIds
  /\ therapistName = DefaultName
  /\ debounceArmed = FALSE
  /\ isProcessing = FALSE
  /\ inflight = <<>>
  /\ nCalls = 0
  /\ nTyped = 0
  /\ editedSinceSend = FALSE
  /\ insertedSinceSend = FALSE
  /\ lastStep = "none"

\* what an indexing step leaves alone
IRest == UNCHANGED <<pvars, cvars, mvars, kvars, svars, fvars, dvars>>

\* the vault's modify and create events: queueFileForIndexing(file); the
\* watchers are registered by onload when an agent is configured
queueFileForIndexing(f) ==
  /\ agentId # ""
  /\ nModified < MaxModified
  /\ nModified' = nModified + 1
  /\ indexQueue' = IF \E i \in 1..Len(indexQueue) : indexQueue[i] = f
                   THEN indexQueue ELSE Append(indexQueue, f)
  /\ indexDebounceTimer' = TRUE
  /\ lastIndexStep' = "queued"
  /\ UNCHANGED <<isIndexing, vaultRun, indexResult, batches, store, nRuns>>
  /\ IRest

\* the timer fires: processIndexQueue up to its first await
processIndexQueue ==
  /\ indexDebounceTimer
  /\ indexDebounceTimer' = FALSE
  /\ IF indexQueue = <<>> \/ agentId = ""
     THEN /\ lastIndexStep' = "nothingQueued"
          /\ UNCHANGED <<indexQueue, batches>>
     ELSE /\ batches' = Append(batches, [paths |-> indexQueue, phase |-> "check", c |-> 0])
          /\ indexQueue' = <<>>
          /\ lastIndexStep' = "batchStarted"
  /\ UNCHANGED <<isIndexing, vaultRun, indexResult, store, nModified, nRuns>>
  /\ IRest

\* the batch without its first path, or gone when that was the last one
batchAdvanced(b) ==
  IF Len(batches[b].paths) > 1
  THEN [batches EXCEPT ![b] = [paths |-> Tail(@.paths), phase |-> "check", c |-> 0]]
  ELSE SubSeq(batches, 1, b - 1) \o SubSeq(batches, b + 1, Len(batches))

\* one await of indexSingleFile in the batch b: shouldIndexFile and
\* getOrCreateArchive, then one addPassage per chunk; ok is the outcome of
\* the request
indexSingleFile(b, ok) ==
  LET file == Head(batches[b].paths)
  IN  /\ b \in 1..Len(batches)
      /\ IF batches[b].phase = "check"
         THEN /\ ok
              /\ batches' = [batches EXCEPT ![b].phase = "write"]
              /\ lastIndexStep' = "batchChecked"
              /\ UNCHANGED store
         ELSE IF ok
              THEN /\ store' = [store EXCEPT ![file] = @ + 1]
                   /\ lastIndexStep' = "batchAdded"
                   /\ batches' = IF batches[b].c + 1 < chunksOf(file)
                                 THEN [batches EXCEPT ![b].c = @ + 1]
                                 ELSE batchAdvanced(b)
              ELSE /\ lastIndexStep' = "batchFileFailed"
                   /\ batches' = batchAdvanced(b)
                   /\ UNCHANGED store
      /\ UNCHANGED <<isIndexing, indexQueue, indexDebounceTimer, vaultRun, indexResult,
                     nModified, nRuns>>
      /\ IRest

\* the index-vault command without the isIndexing test
indexVaultCommand_NoGuard ==
  /\ nRuns < MaxRuns
  /\ nRuns' = nRuns + 1
  /\ IF agentId = ""
     THEN /\ lastIndexStep' = "noAgent"
          /\ UNCHANGED <<isIndexing, vaultRun>>
     ELSE /\ isIndexing' = TRUE
          /\ vaultRun' = StartedRun("archive")
          /\ lastIndexStep' = "runStarted"
  /\ UNCHANGED <<indexQueue, indexDebounceTimer, indexResult, batches, store, nModified>>
  /\ IRest

\* the callback of the index-vault command up to the first await of indexVault
indexVaultCommand ==
  /\ nRuns < MaxRuns
  /\ nRuns' = nRuns + 1
  /\ IF agentId = ""
     THEN /\ lastIndexStep' = "noAgent"
          /\ UNCHANGED <<isIndexing, vaultRun>>
     ELSE IF isIndexing
     THEN /\ lastIndexStep' = "rejected"
          /\ UNCHANGED <<isIndexing, vaultRun>>
     ELSE /\ isIndexing' = TRUE
          /\ vaultRun' = StartedRun("archive")
          /\ lastIndexStep' = "runStarted"
  /\ UNCHANGED <<indexQueue, indexDebounceTimer, indexResult, batches, store, nModified>>
  /\ IRest

\* indexVault moves on to the file after k, or to attachArchive
runAdvanced(run, passages) ==
  IF run.k < Len(MarkdownFiles)
  THEN [run EXCEPT !.phase = "write", !.k = @ + 1, !.c = 0, !.passages = passages,
                   !.tried = Append(@, MarkdownFiles[run.k + 1])]
  ELSE [run EXCEPT !.phase = "attach", !.c = 0, !.passages = passages]

\* what indexVault returns
resultOf(run) ==
  [returned |-> TRUE, files |-> Len(MarkdownFiles), passages |-> run.passages,
   added |-> run.added, tried |-> run.tried]

\* indexVault with the failure of a file ending the run
indexVault_FileFailureAborts(ok) ==
  /\ vaultRun.phase # "idle"
  /\ UNCHANGED <<indexQueue, indexDebounceTimer, batches, nModified, nRuns>>
  /\ IRest
  /\ IF vaultRun.phase = "archive"
     THEN /\ UNCHANGED <<store, indexResult>>
          /\ IF ok THEN /\ vaultRun' = [vaultRun EXCEPT !.phase = "clear"]
                        /\ lastIndexStep' = "archiveFound"
                        /\ UNCHANGED isIndexing
                   ELSE /\ vaultRun' = NoRun
                        /\ lastIndexStep' = "runFailed"
                        /\ isIndexing' = FALSE
     ELSE IF vaultRun.phase = "clear"
     THEN /\ UNCHANGED indexResult
          /\ IF ok THEN /\ store' = EmptyStore
                        /\ vaultRun' = runAdvanced(vaultRun, 0)
                        /\ lastIndexStep' = "cleared"
                        /\ UNCHANGED isIndexing
                   ELSE /\ vaultRun' = NoRun
                        /\ lastIndexStep' = "runFailed"
                        /\ isIndexing' = FALSE
                        /\ UNCHANGED store
     ELSE IF vaultRun.phase = "write"
     THEN /\ UNCHANGED indexResult
          /\ IF ok
             THEN /\ store' = [store EXCEPT ![MarkdownFiles[vaultRun.k]] = @ + 1]
                  /\ lastIndexStep' = "runAdded"
                  /\ UNCHANGED isIndexing
                  /\ vaultRun' =
                       IF vaultRun.c + 1 < chunksOf(MarkdownFiles[vaultRun.k])
                       THEN [vaultRun EXCEPT !.c = @ + 1, !.added = @ + 1]
                       ELSE runAdvanced([vaultRun EXCEPT !.added = @ + 1],
                                        vaultRun.passages
                                          + chunksOf(MarkdownFiles[vaultRun.k]))
             ELSE /\ lastIndexStep' = "runFailed"
                  /\ vaultRun' = NoRun
                  /\ isIndexing' = FALSE
                  /\ UNCHANGED store
     ELSE /\ vaultRun' = NoRun
          /\ indexResult' = resultOf(vaultRun)
          /\ lastIndexStep' = "runDone"
          /\ isIndexing' = FALSE
          /\ UNCHANGED store

\* one await of indexVault and of the command around it; ok is the outcome
\* of the request
indexVault(ok) ==
  /\ vaultRun.phase # "idle"
  /\ UNCHANGED <<indexQueue, indexDebounceTimer, batches, nModified, nRuns>>
  /\ IRest
  /\ IF vaultRun.phase = "archive"
     THEN /\ UNCHANGED <<store, indexResult>>
          /\ IF ok THEN /\ vaultRun' = [vaultRun EXCEPT !.phase = "clear"]
                        /\ lastIndexStep' = "archiveFound"
                        /\ UNCHANGED isIndexing
                   ELSE /\ vaultRun' = NoRun
                        /\ lastIndexStep' = "runFailed"
                        /\ isIndexing' = FALSE
     ELSE IF vaultRun.phase = "clear"
     THEN /\ UNCHANGED indexResult
          /\ IF ok THEN /\ store' = EmptyStore
                        /\ vaultRun' = runAdvanced(vaultRun, 0)
                        /\ lastIndexStep' = "cleared"
                        /\ UNCHANGED isIndexing
                   ELSE /\ vaultRun' = NoRun
                        /\ lastIndexStep' = "runFailed"
                        /\ isIndexing' = FALSE
                        /\ UNCHANGED store
     ELSE IF vaultRun.phase = "write"
     THEN /\ UNCHANGED <<isIndexing, indexResult>>
          /\ IF ok
             THEN /\ store' = [store EXCEPT ![MarkdownFiles[vaultRun.k]] = @ + 1]
                  /\ lastIndexStep' = "runAdded"
                  /\ vaultRun' =
                       IF vaultRun.c + 1 < chunksOf(MarkdownFiles[vaultRun.k])
                       THEN [vaultRun EXCEPT !.c = @ + 1, !.added = @ + 1]
                       ELSE runAdvanced([vaultRun EXCEPT !.added = @ + 1],
                                        vaultRun.passages
                                          + chunksOf(MarkdownFiles[vaultRun.k]))
             ELSE /\ lastIndexStep' = "runFileFailed"
                  /\ vaultRun' = runAdvanced(vaultRun, vaultRun.passages)
                  /\ UNCHANGED store
     ELSE /\ vaultRun' = NoRun
          /\ indexResult' = resultOf(vaultRun)
          /\ lastIndexStep' = "runDone"
          /\ isIndexing' = FALSE
          /\ UNCHANGED store

INext ==
  \/ \E f \in {FileA, FileB} : queueFileForIndexing(f)
  \/ processIndexQueue
  \/ \E b \in 1..Len(batches), ok \in BOOLEAN : indexSingleFile(b, ok)
  \/ indexVaultCommand
  \/ \E ok \in BOOLEAN : indexVault(ok)

\* indexing at rest
IQuiet ==
  /\ isIndexing = FALSE
  /\ indexQueue = <<>>
  /\ indexDebounceTimer = FALSE
  /\ vaultRun = NoRun
  /\ indexResult = NoResult
  /\ batches = <<>>
  /\ store = EmptyStore
  /\ nModified = 0
  /\ nRuns = 0
  /\ lastIndexStep = "none"

(***************************************************************************)
(* VaultIndexer.chunkText, one loop iteration per step.  A text is a        *)
(* sequence of characters that are all different (the character at offset  *)
(* i is i + 1), so that equal pieces of text are pieces of the same offsets.*)
(***************************************************************************)
CHUNK_SIZE == 1000

CHUNK_OVERLAP == 100

\* the text lengths are the multiples of BlockLen up to MaxBlocks of them,
\* and those plus one
BlockLen == 50

MaxBlocks == 60

TextLengths == {BlockLen * n + d : n \in 0..MaxBlocks, d \in {0, 1}}

\* the text of n characters
TextOf(n) == [i \in 1..n |-> i]

\* text.substring(start, end)
substringTo(text, start, end) == SubSeq(text, start + 1, end)

KInit ==
  /\ kText \in {TextOf(n) : n \in TextLengths}
  /\ kPhase = "called"
  /\ kStart = 0
  /\ kChunkIndex = 0
  /\ kChunks = <<>>

\* what chunkText leaves alone
KRest == UNCHANGED <<pvars, cvars, mvars, ivars, svars, fvars, dvars>>

\* chunkText up to the loop: a text of at most CHUNK_SIZE characters is one
\* chunk without a part number (part 0 here)
chunkTextEnter ==
  /\ kPhase = "called"
  /\ IF Len(kText) <= CHUNK_SIZE
     THEN /\ kChunks' = <<[part |-> 0, body |-> kText, chunk |-> 0]>>
          /\ kPhase' = "returned"
     ELSE /\ kPhase' = "loop"
          /\ UNCHANGED kChunks
  /\ UNCHANGED <<kText, kStart, kChunkIndex>>
  /\ KRest

\* one iteration in which the window moves on by its whole width
chunkTextLoop_NoOverlap ==
  LET end == IF kStart + CHUNK_SIZE < Len(kText) THEN kStart + CHUNK_SIZE ELSE Len(kText)
      chunk == substringTo(kText, kStart, end)
      start == end
  IN  /\ kPhase = "loop"
      /\ KRest
      /\ UNCHANGED kText
      /\ IF kStart < Len(kText)
         THEN /\ kChunks' = Append(kChunks, [part |-> kChunkIndex + 1, body |-> chunk,
                                             chunk |-> kChunkIndex])
              /\ kStart' = start
              /\ IF start >= Len(kText) - CHUNK_OVERLAP
                 THEN /\ kPhase' = "returned"
                      /\ UNCHANGED kChunkIndex
                 ELSE /\ kChunkIndex' = kChunkIndex + 1
                      /\ UNCHANGED kPhase
         ELSE /\ kPhase' = "returned"
              /\ UNCHANGED <<kStart, kChunkIndex, kChunks>>

\* one iteration without the break after the window has reached the end
chunkTextLoop_NoBreak ==
  LET end == IF kStart + CHUNK_SIZE < Len(kText) THEN kStart + CHUNK_SIZE ELSE Len(kText)
      chunk == substringTo(kText, kStart, end)
      start == end - CHUNK_OVERLAP
  IN  /\ kPhase = "loop"
      /\ KRest
      /\ UNCHANGED kText
      /\ IF kStart < Len(kText)
         THEN /\ kChunks' = Append(kChunks, [part |-> kChunkIndex + 1, body |-> chunk,
                                             chunk |-> kChunkIndex])
              /\ kStart' = start
              /\ kChunkIndex' = kChunkIndex + 1
              /\ UNCHANGED kPhase
         ELSE /\ kPhase' = "returned"
              /\ UNCHANGED <<kStart, kChunkIndex, kChunks>>

\* one iteration in which the loop is left as soon as less than a whole
\* window is left
chunkTextLoop_BreakEarly ==
  LET end == IF kStart + CHUNK_SIZE < Len(kText) THEN kStart + CHUNK_SIZE ELSE Len(kText)
      chunk == substringTo(kText, kStart, end)
      start == end - CHUNK_OVERLAP
  IN  /\ kPhase = "loop"
      /\ KRest
      /\ UNCHANGED kText
      /\ IF kStart < Len(kText)
         THEN /\ kChunks' = Append(kChunks, [part |-> kChunkIndex + 1, body |-> chunk,
                                             chunk |-> kChunkIndex])
              /\ kStart' = start
              /\ IF start >= Len(kText) - CHUNK_SIZE
                 THEN /\ kPhase' = "returned"
                      /\ UNCHANGED kChunkIndex
                 ELSE /\ kChunkIndex' = kChunkIndex + 1
                      /\ UNCHANGED kPhase
         ELSE /\ kPhase' = "returned"
              /\ UNCHANGED <<kStart, kChunkIndex, kChunks>>

\* one iteration of while (start < text.length)
chunkTextLoop ==
  LET end == IF kStart + CHUNK_SIZE < Len(kText) THEN kStart + CHUNK_SIZE ELSE Len(kText)
      chunk == substringTo(kText, kStart, end)
      start == end - CHUNK_OVERLAP
  IN  /\ kPhase = "loop"
      /\ KRest
      /\ UNCHANGED kText
      /\ IF kStart < Len(kText)
         THEN /\ kChunks' = Append(kChunks, [part |-> kChunkIndex + 1, body |-> chunk,
                                             chunk |-> kChunkIndex])
              /\ kStart' = start
              /\ IF start >= Len(kText) - CHUNK_OVERLAP
                 THEN /\ kPhase' = "returned"
                      /\ UNCHANGED kChunkIndex
                 ELSE /\ kChunkIndex' = kChunkIndex + 1
                      /\ UNCHANGED kPhase
         ELSE /\ kPhase' = "returned"
              /\ UNCHANGED <<kStart, kChunkIndex, kChunks>>

KNext ==
  \/ chunkTextEnter
  \/ chunkTextLoop

\* chunkText not called
KQuiet ==
  /\ kText = <<>>
  /\ kPhase = "called"
  /\ kStart = 0
  /\ kChunkIndex = 0
  /\ kChunks = <<>>

(***************************************************************************)
(* LettaService.sendMessage applied to the responses of the server.        *)
(***************************************************************************)
\* a JavaScript value that is undefined or a string
Undefined == [defined |-> FALSE, text |-> <<>>]

StringOf(t) == [defined |-> TRUE, text |-> t]

\* msg.content of the messages of a response
Contents == {Undefined, StringOf(<<>>), StringOf(ReplyOk), StringOf(ReplyLines)}

\* msg.message_type
MessageTypes == {"assistant_message", "reasoning_message"}

Messages == [message_type : MessageTypes, content : Contents]

\* number of messages of a response
MaxMessages == 2

RECURSIVE SeqsUpTo(_, _)
SeqsUpTo(S, n) ==
  IF n = 0 THEN {<<>>}
  ELSE SeqsUpTo(S, n - 1) \cup
       {Append(q, x) : q \in {q \in SeqsUpTo(S, n - 1) : Len(q) = n - 1}, x \in S}

\* the bodies the server may answer: with a messages array or without one
Payloads ==
  {[hasMessages |-> TRUE, messages |-> q] : q \in SeqsUpTo(Messages, MaxMessages)}
    \cup {[hasMessages |-> FALSE, messages |-> <<>>]}

Threw == [threw |-> TRUE, defined |-> FALSE, text |-> <<>>]

Returned(v) == [threw |-> FALSE, defined |-> v.defined, text |-> v.text]

\* the first message of the sequence with message_type assistant_message,
\* as the one-element sequence of it, or the empty sequence
RECURSIVE firstAssistant(_)
firstAssistant(messages) ==
  IF messages = <<>> THEN <<>>
  ELSE IF Head(messages).message_type = "assistant_message" THEN <<Head(messages)>>
  ELSE firstAssistant(Tail(messages))

\* lastMessage?.content || ''
contentOrEmpty(messages) ==
  IF messages = <<>> THEN StringOf(<<>>)
  ELSE IF messages[Len(messages)].content.defined
          /\ messages[Len(messages)].content.text # <<>>
       THEN messages[Len(messages)].content
       ELSE StringOf(<<>>)

\* sendMessage from `const data = await response.json()` on: iterating
\* data.messages throws a TypeError when data has no messages
extractReply(data) ==
  IF ~data.hasMessages THEN Threw
  ELSE IF firstAssistant(data.messages) # <<>>
       THEN Returned(firstAssistant(data.messages)[1].content)
       ELSE Returned(contentOrEmpty(data.messages))

SInit ==
  /\ sFetch \in {"rejects", "notOk", "ok"}
  /\ sData \in Payloads
  /\ sPhase = "called"
  /\ sResult = Returned(Undefined)

\* what sendMessage leaves alone
SRest == UNCHANGED <<pvars, cvars, mvars, ivars, kvars, fvars, dvars>>

\* await fetch(...) and the test of response.ok
sendMessageFetch ==
  /\ sPhase = "called"
  /\ IF sFetch = "ok"
     THEN /\ sPhase' = "responded"
          /\ UNCHANGED sResult
     ELSE /\ sPhase' = "settled"
          /\ sResult' = Threw
  /\ UNCHANGED <<sFetch, sData>>
  /\ SRest

\* the rest of sendMessage on a response that is ok
sendMessageExtract ==
  /\ sPhase = "responded"
  /\ sPhase' = "settled"
  /\ sResult' = extractReply(sData)
  /\ UNCHANGED <<sFetch, sData>>
  /\ SRest

SNext ==
  \/ sendMessageFetch
  \/ sendMessageExtract

\* sendMessage not called
SQuiet ==
  /\ sFetch = "ok"
  /\ sData = [hasMessages |-> TRUE, messages |-> <<>>]
  /\ sPhase = "called"
  /\ sResult = Returned(Undefined)

(***************************************************************************)
(* Function harness: getJournalContent and hasEngagementCue                *)
(* (contentParser.ts) called on bounded documents and deltas.              *)
(***************************************************************************)
\* the lines documents are made of: Journal headings of level 1 to 4, a
\* mention of a heading inside a line, other headings of level 1 to 3, text,
\* an empty line and a line of hashes only
DocLines ==
  { <<"#", " ", "J", "o", "u", "r", "n", "a", "l">>,
    <<"#", "#", " ", "J", "o", "u", "r", "n", "a", "l">>,
    <<"#", "#", "#", " ", "J", "o", "u", "r", "n", "a", "l">>,
    <<"#", "#", "#", "#", " ", "J", "o", "u", "r", "n", "a", "l">>,
    <<"m", "y", " ", "#", " ", "J", "o", "u", "r", "n", "a", "l">>,
    <<"#", " ", "A">>,
    <<"#", "#", " ", "B">>,
    <<"#", "#", "#", " ", "C">>,
    <<" ", "t">>,
    <<>>,
    <<"#", "#">> }

\* number of lines of a document
MaxDocLines == 3

JournalDocs == {join(ls, <<NL>>) : ls \in SeqsUpTo(DocLines, MaxDocLines)}

\* the upper-case letter of a lower-case one
UpperOf == [c \in {LowerOf[u] : u \in DOMAIN LowerOf} |-> CHOOSE u \in DOMAIN LowerOf : LowerOf[u] = c]

\* a text in capitals
Capitals(s) == [i \in 1..Len(s) |-> IF s[i] \in DOMAIN UpperOf THEN UpperOf[s[i]] ELSE s[i]]

\* texts that come close to a cue without containing one
NearCues ==
  { <<"f", "i", "n", "e">>,
    <<"a", "d", "v", "i", "c">>,
    <<"i", " ", " ", "n", "e", "e", "d">>,
    <<"h", "e", "l", "p", "m", "e">>,
    <<>> }

\* deltas: a cue or a near cue, as listed or in capitals, inside other text
CueDeltas ==
  { pre \o core \o post :
      pre \in {<<>>, <<"S", "o", " ">>},
      core \in EngagementCues \cup NearCues \cup {Capitals(c) : c \in EngagementCues \cup NearCues},
      post \in {<<>>, <<".">>, <<"?">>} }

FInit ==
  /\ \/ fKind = "journal" /\ fInput \in JournalDocs
     \/ fKind = "cue" /\ fInput \in CueDeltas
  /\ fApplied = FALSE
  /\ fJournal = [isNull |-> TRUE, text |-> <<>>]
  /\ fCue = FALSE

\* a step of the harness leaves the rest alone
FRest == UNCHANGED <<pvars, cvars, mvars, ivars, kvars, svars, dvars>>

\* const journalContent = getJournalContent(fullContent)
callGetJournalContent ==
  /\ fKind = "journal"
  /\ ~fApplied
  /\ fJournal' = getJournalContent(fInput)
  /\ fApplied' = TRUE
  /\ UNCHANGED <<fKind, fInput, fCue>>
  /\ FRest

\* const hasEngagement = hasEngagementCue(newContent)
callHasEngagementCue ==
  /\ fKind = "cue"
  /\ ~fApplied
  /\ fCue' = hasEngagementCue(fInput)
  /\ fApplied' = TRUE
  /\ UNCHANGED <<fKind, fInput, fJournal>>
  /\ FRest

FNext ==
  \/ callGetJournalContent
  \/ callHasEngagementCue

\* the harness at rest, for the other specifications
FQuiet ==
  /\ fKind = "journal"
  /\ fInput = <<>>
  /\ fApplied = FALSE
  /\ fJournal = [isNull |-> TRUE, text |-> <<>>]
  /\ fCue = FALSE

(***************************************************************************)
(* Debounced change handling (main.ts onload): the 'editor-change'         *)
(* listener, the debounced handler with its timer, the toggle command and  *)
(* the start of a cycle, with the passing of time. An agent is configured. *)
(***************************************************************************)
\* settings.debounceMs, in ticks of the clock
DebounceTicks == 2

\* number of lines the user types
MaxEdits == 3

\* number of remote calls issued
MaxDebounceCalls == 2

\* the text of the n-th line the user types
TypedText(n) == [i \in 1..n |-> "x"]

DInit ==
  /\ dLines = << <<"#", "#", " ", "J", "o", "u", "r", "n", "a", "l">> >>
  /\ dEnabled = TRUE
  /\ dTimer = -1
  /\ dQuiet = DebounceTicks
  /\ dBurstEvents = 0
  /\ dBurstCalls = 0
  /\ dProcessing = FALSE
  /\ dCalls = <<>>
  /\ dTyped = 0

\* a step of the debounced handling leaves the rest alone
DRest == UNCHANGED <<pvars, cvars, mvars, ivars, kvars, svars, fvars>>

\* debounce(fn, debounceMs, true) without resetTimer: a running timer is
\* left as it is
debounceCalled_NoReset(timer) == IF timer = -1 THEN DebounceTicks ELSE timer

\* debounce(fn, debounceMs, true): the timer after a call of the debounced
\* function; every call starts the quiet period again
debounceCalled(timer) == DebounceTicks

\* the 'editor-change' listener: nothing happens while the therapist is off;
\* otherwise the debounced handler is called
editorChangeListener ==
  IF ~dEnabled
  THEN UNCHANGED <<dTimer, dQuiet, dBurstEvents, dBurstCalls>>
  ELSE /\ dTimer' = debounceCalled(dTimer)
       /\ dQuiet' = 0
       /\ dBurstEvents' = IF dQuiet < DebounceTicks THEN dBurstEvents + 1 ELSE 1
       /\ dBurstCalls' = IF dQuiet < DebounceTicks THEN dBurstCalls ELSE 0

\* the user types a line at the end of the document
userEdits ==
  /\ dTyped < MaxEdits
  /\ dTyped' = dTyped + 1
  /\ dLines' = Append(dLines, TypedText(dTyped + 1))
  /\ editorChangeListener
  /\ UNCHANGED <<dEnabled, dProcessing, dCalls>>
  /\ DRest

\* one tick of the clock; a timer that is due fires first
clockTick ==
  /\ dTimer # 0
  /\ dQuiet < DebounceTicks \/ dTimer > 0
  /\ dTimer' = IF dTimer > 0 THEN dTimer - 1 ELSE dTimer
  /\ dQuiet' = IF dQuiet < DebounceTicks THEN dQuiet + 1 ELSE dQuiet
  /\ UNCHANGED <<dLines, dEnabled, dBurstEvents, dBurstCalls, dProcessing, dCalls, dTyped>>
  /\ DRest

\* the toggle-therapist command
toggleTherapistCommand ==
  /\ dEnabled' = ~dEnabled
  /\ UNCHANGED <<dLines, dTimer, dQuiet, dBurstEvents, dBurstCalls, dProcessing, dCalls, dTyped>>
  /\ DRest

\* the timer fires: handleEditorChange(editor, view) up to its await
debounceTimerFires ==
  LET fullContent == getValue(dLines)
      journalContent == getJournalContent(fullContent)
      newContent == getNewContent(journalContent.text)
  IN  /\ dTimer = 0
      /\ dTimer' = -1
      /\ IF \/ dProcessing
            \/ journalContent.isNull \/ journalContent.text = <<>>
            \/ newContent = <<>>
            \/ isTherapistResponse(newContent)
         THEN UNCHANGED <<dProcessing, dCalls, dBurstCalls>>
         ELSE /\ Len(dCalls) < MaxDebounceCalls
              /\ dProcessing' = TRUE
              /\ dCalls' = Append(dCalls, [content |-> newContent, enabled |-> dEnabled])
              /\ dBurstCalls' = dBurstCalls + 1
      /\ UNCHANGED <<dLines, dEnabled, dQuiet, dBurstEvents, dTyped>>
      /\ DRest

\* sendMessage settles: a reply is inserted at the end of the document, which
\* is a change of the editor, or nothing is inserted; the finally block
cycleSettles(inserts) ==
  /\ dProcessing
  /\ dProcessing' = FALSE
  /\ IF inserts
     THEN /\ dLines' = replaceSelection(dLines, Len(dLines) - 1, formatResponse(ReplyOk, DefaultName))
          /\ editorChangeListener
     ELSE UNCHANGED <<dLines, dTimer, dQuiet, dBurstEvents, dBurstCalls>>
  /\ UNCHANGED <<dEnabled, dCalls, dTyped>>
  /\ DRest

DNext ==
  \/ userEdits
  \/ clockTick
  \/ toggleTherapistCommand
  \/ debounceTimerFires
  \/ \E inserts \in BOOLEAN : cycleSettles(inserts)

\* the debounced handling at rest, for the other specifications
DQuiet ==
  /\ dLines = <<>>
  /\ dEnabled = TRUE
  /\ dTimer = -1
  /\ dQuiet = 0
  /\ dBurstEvents = 0
  /\ dBurstCalls = 0
  /\ dProcessing = FALSE
  /\ dCalls = <<>>
  /\ dTyped = 0

\* the services at rest, for the other specifications
XQuiet == IQuiet /\ KQuiet /\ SQuiet /\ FQuiet /\ DQuiet

vars == <<pvars, cvars, mvars, xvars>>

\* the parser harness starts on a document; the rest is at rest
InitParser == PInit /\ CQuiet /\ MQuiet /\ XQuiet

\* the content parser applied to growing documents
SpecParser == InitParser /\ [][PNext]_vars

\* the plugin after onload with a single agent; the rest is at rest
Init == CInit /\ PQuiet /\ MQuiet /\ XQuiet

\* the session controller with a single agent
Spec == Init /\ [][CNext]_vars

\* the multi-agent plugin after onload; the harness is at rest
InitMulti == MInit /\ PQuiet /\ XQuiet

\* the multi-agent orchestration
SpecMulti == InitMulti /\ [][MNext]_vars

\* the plugin with auto-indexing after onload; the rest is at rest
InitIndex == IInit /\ PQuiet /\ MQuiet /\ KQuiet /\ SQuiet /\ FQuiet /\ DQuiet

\* vault indexing
SpecIndex == InitIndex /\ [][INext]_vars

\* chunkText is called with a text; the rest is at rest
InitChunk == KInit /\ CQuiet /\ PQuiet /\ MQuiet /\ IQuiet /\ SQuiet /\ FQuiet /\ DQuiet

\* the chunker
SpecChunk == InitChunk /\ [][KNext]_vars

\* sendMessage is called and the server answers; the rest is at rest
InitSend == SInit /\ CQuiet /\ PQuiet /\ MQuiet /\ IQuiet /\ KQuiet /\ FQuiet /\ DQuiet

\* sendMessage
SpecSend == InitSend /\ [][SNext]_vars

\* the chunker, its loop running on
SpecChunkLive == SpecChunk /\ WF_vars(KNext)

\* a parser function is called on a text; the rest is at rest
InitText == FInit /\ CQuiet /\ PQuiet /\ MQuiet /\ IQuiet /\ KQuiet /\ SQuiet /\ DQuiet

\* the parser functions of the handler
SpecText == InitText /\ [][FNext]_vars

\* the plugin after onload with an agent and an open journal note; the rest
\* is at rest
InitDebounce == DInit /\ CQuiet /\ PQuiet /\ MQuiet /\ IQuiet /\ KQuiet /\ SQuiet /\ FQuiet

\* passive cycles: change events, the debounce timer and the toggle command
SpecDebounce == InitDebounce /\ [][DNext]_vars

(***************************************************************************)
(* Properties of the content parser (SpecParser).                          *)
(***************************************************************************)
PLast == pHist[Len(pHist)]

PPrev == pHist[Len(pHist) - 1]

\* the first non-blank line of u starts with '>' once trimmed
OpensWithQuote(u) ==
  LET ls == split(u)
      nonBlank == {i \in 1..Len(ls) : trim(ls[i]) # <<>>}
  IN  nonBlank # {} /\ startsWith(trim(ls[Min(nonBlank)]), <<">">>)

\* C1: a document that ends with formatResponse(R, L), L the configured
\* label, has an empty delta: the plugin's own insertion is never reported
\* as new user content.
C1_RoundTripEmpty ==
  (pExtracted /\ pHist # <<>> /\ PLast.kind = "response" /\ PLast.label = pName)
    => pDelta = <<>>

\* C2: isTherapistResponse accepts the output of formatResponse when the
\* response was formatted with the configured label.
C2_DetectsOwnFormat ==
  (pDetected /\ pHist # <<>> /\ PLast.kind = "response" /\ PLast.label = pName)
    => pIsResponse

C4_NoMarkerWholeText ==
  (pExtracted /\ ~includes(pText, getTherapistPrefix(DefaultName)))
    => pDelta = trim(pText)

\* a marker-free document with a user-authored blockquote was extracted
C4_Witness ==
  /\ pExtracted
  /\ ~includes(pText, getTherapistPrefix(DefaultName))
  /\ includes(pText, <<NL, ">", " ">>)
  /\ pDelta = trim(pText)
  /\ pDelta # <<>>

\* C5: a response formatted with a label other than the configured one is
\* not detected as a response.
C5_RejectsOtherLabel ==
  (pDetected /\ pHist # <<>> /\ PLast.kind = "response" /\ PLast.label # pName)
    => ~pIsResponse

(***************************************************************************)
(* Properties of the session controller (Spec).                            *)
(***************************************************************************)
\* a step in which handleEditorChange is entered
HandlerEntered == debouncedHandler \/ triggerTherapist

\* C6: at most one sendMessage call is outstanding; a trigger that reaches
\* handleEditorChange while isProcessing issues no call and changes neither
\* the document nor the flag, and a call is only ever issued by the step of
\* a trigger that arrived while no cycle was active (nothing is queued).
C6_SingleFlightDropped ==
  /\ [](Len(inflight) <= 1)
  /\ [][(isProcessing /\ HandlerEntered)
          => (nCalls' = nCalls /\ inflight' = inflight /\ lines' = lines
              /\ isProcessing' = isProcessing)]_vars
  /\ [][nCalls' > nCalls => (~isProcessing /\ HandlerEntered)]_vars

\* a trigger was dropped while a call is outstanding
C6_Witness == lastStep = "dropped" /\ isProcessing /\ Len(inflight) = 1

\* C7: isProcessing is set by the step that issues the call, stays set
\* exactly as long as the call is outstanding, and is cleared by the step
\* that ends the cycle, whether the call resolved or threw.
C7_FlagLifecycle ==
  /\ [](isProcessing <=> inflight # <<>>)
  /\ [][nCalls' > nCalls => (~isProcessing /\ isProcessing')]_vars
  /\ [][Len(inflight') < Len(inflight) => ~isProcessing']_vars

\* a second cycle is under way after the first one ended without inserting
\* anything (its call threw or the agent stayed silent)
C7_Witness ==
  /\ nCalls = 2 /\ isProcessing /\ lastStep = "started"
  /\ ~includes(getValue(lines), <<">", " ", "*", "*">>)

\* C9: once a response has been inserted and the user has typed nothing
\* since the call of that cycle was issued, no further call is issued.
C9_NoResend ==
  [][(insertedSinceSend /\ ~editedSinceSend) => nCalls' = nCalls]_vars

(***************************************************************************)
(* Properties of the multi-agent orchestration (SpecMulti).                *)
(***************************************************************************)
\* C8: the sentinel reply never reaches the document, alone or merged.
C8_SentinelNeverInserted == ~includes(getValue(lines), Sentinel)

\* replies of the calls k.. that succeeded with a non-blank reply, in agent order
RECURSIVE SucceededReplies(_)
SucceededReplies(k) ==
  IF k > Len(mCalls) THEN <<>>
  ELSE IF mCalls[k].status = "ok" /\ trim(mCalls[k].reply) # <<>>
       THEN <<mCalls[k].reply>> \o SucceededReplies(k + 1)
       ELSE SucceededReplies(k + 1)

\* C10: in parallel mode every enabled agent is called at the start of the
\* cycle, a call that throws leaves the other calls outstanding, the cycle
\* ends only when all calls have settled, its merged text is exactly the
\* non-blank replies of the calls that succeeded, and the failure never
\* reaches the catch block of handleEditorChange.
C10_ParallelFailureIsolated ==
  multiAgentMode = "parallel" =>
    /\ lastStep # "failed"
    /\ isProcessing =>
         /\ \A k \in 1..Len(mCalls) : mCalls[k].status # "none"
         /\ \E k \in 1..Len(mCalls) : mCalls[k].status = "pending"
    /\ (lastStep \in {"inserted", "silent"}) =>
         /\ ~isProcessing
         /\ Len(mCalls) = Len(mAgents)
         /\ \A k \in 1..Len(mCalls) : mCalls[k].status \in {"ok", "failed"}
         /\ mInserted = join(SucceededReplies(1), <<NL, NL>>)
         /\ (lastStep = "inserted") = (mInserted # <<>>)

\* a parallel cycle in which one call threw and another replied ended with
\* the reply inserted
C10_Witness ==
  /\ multiAgentMode = "parallel"
  /\ lastStep = "inserted"
  /\ \E k \in 1..Len(mCalls) : mCalls[k].status = "failed"
  /\ \E k \in 1..Len(mCalls) : mCalls[k].status = "ok" /\ mCalls[k].reply = mInserted
  /\ includes(getValue(lines), mInserted)

\* position of an agent in settings.agents
PositionOf(a) == CHOOSE i \in 1..Len(agents) : agents[i] = a

\* the list is the enabled agents of the settings by ascending order field,
\* agents of equal order in the order of the settings list
InConfiguredOrder(list) ==
  /\ Len(list) = Cardinality({i \in 1..Len(agents) : agents[i].enabled})
  /\ \A k \in 1..Len(list) :
        \E i \in 1..Len(agents) : agents[i] = list[k] /\ agents[i].enabled
  /\ \A k, l \in 1..Len(list) :
        k < l => \/ list[k].order < list[l].order
                 \/ /\ list[k].order = list[l].order
                    /\ PositionOf(list[k]) < PositionOf(list[l])

\* C11: in parallel mode the agents of a cycle are the enabled agents in
\* configured order (ascending order field, ties in settings order), and the
\* merged text of a finished cycle lists the replies in that order whatever
\* the order in which the calls settled.
C11_ParallelMergeOrder ==
  (multiAgentMode = "parallel" /\ mCycles > 0) =>
    /\ InConfiguredOrder(mAgents)
    /\ (lastStep \in {"inserted", "silent"}) =>
         /\ Len(mOrder) = Len(mAgents)
         /\ mInserted = join(SucceededReplies(1), <<NL, NL>>)

\* a parallel cycle of two agents whose calls settled against the configured
\* order, both with a reply, ended with the first agent's reply first
C11_Witness ==
  /\ multiAgentMode = "parallel"
  /\ lastStep = "inserted"
  /\ mOrder = <<2, 1>>
  /\ mCalls[1].status = "ok" /\ mCalls[2].status = "ok"
  /\ mCalls[1].reply # mCalls[2].reply
  /\ trim(mCalls[1].reply) # <<>> /\ trim(mCalls[2].reply) # <<>>
  /\ mInserted = mCalls[1].reply \o <<NL, NL>> \o mCalls[2].reply

\* C12: in sequential mode the calls are issued one at a time in configured
\* order: at most one call is outstanding, and the call of an agent has been
\* issued only if the call of every earlier agent has returned or failed.
C12_SequentialStrictOrder ==
  (multiAgentMode = "sequential" /\ mCycles > 0) =>
    /\ InConfiguredOrder(mAgents)
    /\ Len(mCalls) = Len(mAgents)
    /\ Cardinality({k \in 1..Len(mCalls) : mCalls[k].status = "pending"}) <= 1
    /\ \A k \in 1..Len(mCalls) :
         mCalls[k].status # "none" =>
           \A j \in 1..(k - 1) : mCalls[j].status \in {"ok", "failed"}
    /\ isProcessing => \E k \in 1..Len(mCalls) : mCalls[k].status = "pending"

\* a sequential cycle of two agents: the first call has settled and the
\* second is outstanding
C12_Witness ==
  /\ multiAgentMode = "sequential"
  /\ Len(mCalls) = 2
  /\ mCalls[1].status \in {"ok", "failed"}
  /\ mCalls[2].status = "pending"
  /\ mOrder = <<1>>

\* the Delta of the running cycle: the document does not change while the
\* calls are outstanding
CycleDelta == getNewContent(getValue(lines))

\* `[<name>]: <reply>`
TaggedReply(name, reply) == <<"[">> \o name \o <<"]", ":", " ">> \o reply

\* the Delta followed by the tagged replies of the agents j..k-1 that
\* returned a reply with something other than white space in it
RECURSIVE TranscriptNonBlank(_, _)
TranscriptNonBlank(j, k) ==
  IF j >= k THEN <<>>
  ELSE (IF mCalls[j].status = "ok" /\ trim(mCalls[j].reply) # <<>>
        THEN <<NL, NL>> \o TaggedReply(mAgents[j].name, mCalls[j].reply)
        ELSE <<>>) \o TranscriptNonBlank(j + 1, k)

\* the same for the agents that returned a reply of at least one character
RECURSIVE TranscriptNonEmpty(_, _)
TranscriptNonEmpty(j, k) ==
  IF j >= k THEN <<>>
  ELSE (IF mCalls[j].status = "ok" /\ mCalls[j].reply # <<>>
        THEN <<NL, NL>> \o TaggedReply(mAgents[j].name, mCalls[j].reply)
        ELSE <<>>) \o TranscriptNonEmpty(j + 1, k)

\* C13 as stated: in sequential mode the first agent receives the Delta and
\* each later agent the Delta followed by one entry `[<name>]: <reply>` for
\* every earlier agent whose reply was non-empty, in invocation order.
C13_SequentialTranscript_Original ==
  (multiAgentMode = "sequential" /\ isProcessing) =>
    \A k \in 1..Len(mCalls) :
      mCalls[k].status # "none" =>
        mCalls[k].content = CycleDelta \o TranscriptNonEmpty(1, k)

\* C13 (amended): in sequential mode the first agent receives the Delta and
\* each later agent the Delta followed by one entry `[<name>]: <reply>`,
\* set off by a blank line, for every earlier agent of the round whose reply
\* holds something other than white space, in invocation order, and nothing
\* for agents whose reply was empty or white space only.
C13_SequentialTranscript ==
  (multiAgentMode = "sequential" /\ isProcessing) =>
    /\ mCalls[1].content = CycleDelta
    /\ \A k \in 1..Len(mCalls) :
         mCalls[k].status # "none" =>
           mCalls[k].content = CycleDelta \o TranscriptNonBlank(1, k)

\* the second agent of a sequential cycle is being asked with the first
\* agent's reply in its transcript
C13_Witness ==
  /\ multiAgentMode = "sequential"
  /\ isProcessing
  /\ Len(mCalls) = 2
  /\ mCalls[1].status = "ok" /\ mCalls[1].reply = ReplyOk
  /\ mCalls[2].status = "pending"
  /\ mCalls[2].content = CycleDelta \o <<NL, NL>> \o TaggedReply(mAgents[1].name, ReplyOk)

\* the call of agent i fails in this step
CallFails(i) ==
  /\ i \in 1..Len(mCalls)
  /\ mCalls[i].status = "pending"
  /\ mCalls'[i].status = "failed"

\* C14: in sequential mode a failing agent's turn is skipped: the failure
\* leaves the transcript and the outputs as they were, the next agent is
\* asked with the unchanged transcript (or the cycle ends normally after the
\* last agent), a finished cycle has asked every agent and holds one output
\* per call that returned, and the catch block of handleEditorChange is
\* never entered.
C14_SequentialFailureSkipped ==
  /\ [](multiAgentMode = "sequential" =>
          /\ lastStep # "failed"
          /\ (mCycles > 0 /\ ~isProcessing) =>
               /\ \A k \in 1..Len(mCalls) : mCalls[k].status \in {"ok", "failed"}
               /\ Len(mResponses) =
                    Cardinality({k \in 1..Len(mCalls) : mCalls[k].status = "ok"})
               /\ mInserted = join(SucceededReplies(1), <<NL, NL>>))
  /\ [][\A i \in 1..Len(mCalls) :
          (multiAgentMode = "sequential" /\ CallFails(i)) =>
            /\ mAccum' = mAccum
            /\ mResponses' = mResponses
            /\ IF i < Len(mAgents)
               THEN /\ isProcessing'
                    /\ mCalls'[i + 1] = PendingCall(mAccum)
                    /\ lines' = lines
               ELSE /\ ~isProcessing'
                    /\ lastStep' \in {"inserted", "silent"}]_vars

\* a sequential cycle of two agents ended with the second agent's reply
\* inserted after the first agent's call had failed
C14_Witness ==
  /\ multiAgentMode = "sequential"
  /\ lastStep = "inserted"
  /\ Len(mCalls) = 2
  /\ mCalls[1].status = "failed"
  /\ mCalls[2].status = "ok"
  /\ mCalls[2].content = mCalls[1].content
  /\ mInserted = mCalls[2].reply
  /\ Len(mResponses) = 1

\* the non-blank replies of the calls k.. each formatted as a quotation of
\* its own, under the agent's name or under the default label
RECURSIVE FormattedEach(_, _)
FormattedEach(k, byName) ==
  IF k > Len(mCalls) THEN <<>>
  ELSE IF mCalls[k].status = "ok" /\ trim(mCalls[k].reply) # <<>>
       THEN formatResponse(mCalls[k].reply,
                           IF byName THEN mAgents[k].name ELSE DefaultName)
              \o FormattedEach(k + 1, byName)
       ELSE FormattedEach(k + 1, byName)

\* C15: the text a sequential cycle inserts is the replies in invocation
\* order, each formatted as its own attributed quotation, so that the
\* document shows one attribution marker per non-empty reply.
C15_SequentialFormattedEach ==
  (multiAgentMode = "sequential" /\ lastStep = "inserted") =>
    \/ includes(getValue(lines), FormattedEach(1, FALSE))
    \/ includes(getValue(lines), FormattedEach(1, TRUE))

\* C20: with a single agent, a remote call that fails ends its cycle in the
\* catch block: the document and the cursor are as they were, the flag is
\* cleared, and no rejection leaves handleEditorChange.
C20_SingleFailureContained ==
  /\ [](lastStep \notin {"unhandled"})
  /\ [][Len(inflight') < Len(inflight) =>
          \/ lastStep' \in {"inserted", "silent"}
          \/ /\ lastStep' = "failed"
             /\ lines' = lines
             /\ cursorLine' = cursorLine
             /\ ~isProcessing'
             /\ inflight' = <<>>]_vars

\* a call has failed: the cycle is over and the document is the one the
\* call was issued on
C20_Witness ==
  /\ lastStep = "failed"
  /\ nCalls > 0
  /\ ~isProcessing
  /\ inflight = <<>>
  /\ ~insertedSinceSend

(***************************************************************************)
(* Properties of vault indexing (SpecIndex).                               *)
(***************************************************************************)
\* number of indexing operations that have a clearArchive or an addPassage
\* request outstanding
WritingIndexOps ==
  (IF vaultRun.phase \in {"clear", "write"} THEN 1 ELSE 0)
    + Cardinality({b \in 1..Len(batches) : batches[b].phase = "write"})

\* C16: indexing is single-flight: at any time at most one indexing
\* operation (an indexVault run or a processIndexQueue batch) is clearing or
\* writing the archive.
C16_IndexingSingleFlight == WritingIndexOps <= 1

C29_PassagesCountExact ==
  indexResult.returned => indexResult.passages = indexResult.added

(***************************************************************************)
(* Properties of the chunker (SpecChunk, SpecChunkLive).                   *)
(***************************************************************************)
\* the last n characters of a text
tailOf(text, n) == SubSeq(text, Len(text) - n + 1, Len(text))

\* the first n characters of a text
headOf(text, n) == SubSeq(text, 1, n)

\* C17: for a text longer than CHUNK_SIZE every chunk body has at most
\* CHUNK_SIZE characters, and the last CHUNK_OVERLAP characters of each chunk
\* are the first CHUNK_OVERLAP characters of the chunk after it.
C17_BoundedOverlappingChunks ==
  Len(kText) > CHUNK_SIZE =>
    /\ \A i \in 1..Len(kChunks) : Len(kChunks[i].body) <= CHUNK_SIZE
    /\ \A i \in 1..(Len(kChunks) - 1) :
         /\ Len(kChunks[i].body) >= CHUNK_OVERLAP
         /\ Len(kChunks[i + 1].body) >= CHUNK_OVERLAP
         /\ tailOf(kChunks[i].body, CHUNK_OVERLAP) = headOf(kChunks[i + 1].body, CHUNK_OVERLAP)

\* the text of 2500 characters has been cut into three chunks, the last
\* one shorter than CHUNK_SIZE
C17_Witness ==
  /\ Len(kText) = 2500
  /\ kPhase = "returned"
  /\ Len(kChunks) = 3
  /\ Len(kChunks[1].body) = CHUNK_SIZE
  /\ Len(kChunks[3].body) < CHUNK_SIZE
  /\ tailOf(kChunks[2].body, CHUNK_OVERLAP) = headOf(kChunks[3].body, CHUNK_OVERLAP)

\* C18: chunkText returns on every text: every iteration of the loop adds
\* one chunk and moves the window start strictly forward, the start stays
\* below the length of the text, and the loop is left after finitely many
\* iterations.
C18_ChunkerTerminates ==
  /\ [][kChunks' # kChunks =>
          /\ Len(kChunks') = Len(kChunks) + 1
          /\ (kPhase = "loop" => (kStart' > kStart /\ kStart' < Len(kText)))]_vars
  /\ [](Len(kChunks) <= Len(kText) + 1)
  /\ <>(kPhase = "returned")

\* a text longer than CHUNK_SIZE has been cut by more than one iteration and
\* chunkText has returned
C18_Witness ==
  /\ Len(kText) > CHUNK_SIZE
  /\ kPhase = "returned"
  /\ Len(kChunks) >= 2
  /\ kStart > 0

\* the offset in the text at which a chunk starts and the one at which it
\* ends (the characters of a text are their positions)
firstOffset(c) == c.body[1] - 1

lastOffset(c) == c.body[Len(c.body)]

\* C30: for a text longer than CHUNK_SIZE, chunk k (zero-based) starts at
\* offset k * (CHUNK_SIZE - CHUNK_OVERLAP), carries index k and the header
\* Part k + 1, and is a piece of the text; only the last chunk reaches the end
\* of the text, the loop goes on until a chunk does, and the chunks returned
\* cover every position of the text.
C30_ChunksCoverText ==
  Len(kText) > CHUNK_SIZE =>
    /\ \A i \in 1..Len(kChunks) :
         /\ kChunks[i].chunk = i - 1
         /\ kChunks[i].part = i
         /\ kChunks[i].body # <<>>
         /\ firstOffset(kChunks[i]) = (i - 1) * (CHUNK_SIZE - CHUNK_OVERLAP)
         /\ kChunks[i].body = SubSeq(kText, firstOffset(kChunks[i]) + 1, lastOffset(kChunks[i]))
    /\ \A i \in 1..(Len(kChunks) - 1) : lastOffset(kChunks[i]) < Len(kText)
    /\ (kPhase = "loop" /\ kChunks # <<>>) => lastOffset(kChunks[Len(kChunks)]) < Len(kText)
    /\ kPhase = "returned" =>
         /\ kChunks # <<>>
         /\ lastOffset(kChunks[Len(kChunks)]) = Len(kText)
         /\ \A p \in 1..Len(kText) :
              \E i \in 1..Len(kChunks) : firstOffset(kChunks[i]) < p /\ p <= lastOffset(kChunks[i])

\* a text one character longer than CHUNK_SIZE has been cut into two chunks,
\* the second one holding the overlap and the last character
C30_Witness ==
  /\ Len(kText) = CHUNK_SIZE + 1
  /\ kPhase = "returned"
  /\ Len(kChunks) = 2
  /\ kChunks[2].part = 2 /\ kChunks[2].chunk = 1
  /\ firstOffset(kChunks[2]) = CHUNK_SIZE - CHUNK_OVERLAP
  /\ lastOffset(kChunks[2]) = CHUNK_SIZE + 1

(***************************************************************************)
(* Properties of sendMessage (SpecSend).                                   *)
(***************************************************************************)
\* the messages of the response that are assistant messages
AssistantAt == {i \in 1..Len(sData.messages) :
                  sData.messages[i].message_type = "assistant_message"}

\* C19: on a response that is ok, sendMessage returns the content of the
\* first assistant_message; without one, the content of the last message;
\* and when that is absent too (no messages, or a last message without
\* content) it returns the empty string and does not throw.
C19_ReplyExtraction ==
  (sPhase = "settled" /\ sFetch = "ok") =>
    IF sData.hasMessages /\ AssistantAt # {}
    THEN sResult = Returned(sData.messages[Min(AssistantAt)].content)
    ELSE IF /\ sData.hasMessages
            /\ sData.messages # <<>>
            /\ sData.messages[Len(sData.messages)].content.defined
         THEN sResult = Returned(sData.messages[Len(sData.messages)].content)
         ELSE sResult = Returned(StringOf(<<>>))

(***************************************************************************)
(* Properties of the parser functions (SpecText).                          *)
(***************************************************************************)
\* the lines of the document handed to getJournalContent
InputLines == split(fInput)

\* line is a Journal heading of level n: n hashes, a blank and "Journal"
\* opening the line (n hashes is JOURNAL_HEADERS[n])
JournalHeadingOfLevel(line, n) ==
  /\ Len(line) >= Len(JOURNAL_HEADERS[n])
  /\ SubSeq(line, 1, Len(JOURNAL_HEADERS[n])) = JOURNAL_HEADERS[n]

\* one-based numbers of the lines that are recognized Journal headings
JournalHeadingLines ==
  {i \in 1..Len(InputLines) : \E n \in 1..Len(JOURNAL_HEADERS) : JournalHeadingOfLevel(InputLines[i], n)}

\* line is a heading of level n: exactly n hashes followed by white space
HeadingOfLevel(line, n) ==
  /\ Len(line) > n
  /\ \A j \in 1..n : line[j] = "#"
  /\ line[n + 1] \in WhiteSpace

\* the Journal Section of the document: the trimmed text strictly between the
\* first Journal heading line and the first later heading of its level or higher
JournalSectionText ==
  LET first == Min(JournalHeadingLines)
      level == CHOOSE n \in 1..Len(JOURNAL_HEADERS) : JournalHeadingOfLevel(InputLines[first], n)
      closing == {i \in (first + 1)..Len(InputLines) : \E n \in 1..level : HeadingOfLevel(InputLines[i], n)}
      last == IF closing = {} THEN Len(InputLines) ELSE Min(closing) - 1
  IN  trim(join(SubSeq(InputLines, first + 1, last), <<NL>>))

\* C22: getJournalContent returns null exactly when no line of the document
\* is a recognized Journal heading (# Journal, ## Journal, ### Journal), and
\* otherwise the trimmed text strictly between the first Journal heading line
\* and the first later heading line with at most as many # markers, or the
\* end of the document.
C22_JournalSection ==
  (fKind = "journal" /\ fApplied) =>
     /\ fJournal.isNull <=> JournalHeadingLines = {}
     /\ ~fJournal.isNull /\ JournalHeadingLines # {} => fJournal.text = JournalSectionText

\* the character c of a text is the character d of a cue, whatever its case
SameLetter(c, d) == c = d \/ (c \in DOMAIN LowerOf /\ LowerOf[c] = d)

\* cue occurs in text, compared case-insensitively
ContainsIgnoringCase(text, cue) ==
  \E o \in 0..(Len(text) - Len(cue)) : \A j \in 1..Len(cue) : SameLetter(text[o + j], cue[j])

\* C24: hasEngagementCue(delta) is true exactly when the delta contains a
\* question mark or, compared case-insensitively, a phrase of the cue list.
C24_EngagementCue ==
  (fKind = "cue" /\ fApplied) =>
     (fCue <=> \/ \E i \in 1..Len(fInput) : fInput[i] = "?"
               \/ \E cue \in EngagementCues : ContainsIgnoringCase(fInput, cue))

\* a cue typed in capitals, without a question mark, is found
C24_Witness ==
  /\ fKind = "cue" /\ fApplied /\ fCue
  /\ \A i \in 1..Len(fInput) : fInput[i] # "?"
  /\ \E i \in 1..Len(fInput) : fInput[i] \in DOMAIN LowerOf
  /\ \A cue \in EngagementCues : ~includes(fInput, cue)

(***************************************************************************)
(* Properties of the session controller, continued (Spec).                 *)
(***************************************************************************)
\* the Journal Section of the editor's document and the Delta in it
EditorJournal == getJournalContent(getValue(lines))

EditorDelta == getNewContent(EditorJournal.text)

\* an agent is configured, the document has a Journal Section and the Delta
\* of that section is not empty
CycleMayCall == agentId # "" /\ ~EditorJournal.isNull /\ EditorDelta # <<>>

C28_TypedInFlightNotLost ==
  (editedSinceSend /\ insertedSinceSend /\ includes(EditorJournal.text, UserAsk))
    => includes(EditorDelta, UserAsk)

(***************************************************************************)
(* Properties of the content parser, continued (SpecParser).               *)
(***************************************************************************)
\* the response piece pFormatted was made from
LastResponse == pHist[Max({i \in 1..Len(pHist) : pHist[i].kind = "response"})]

\* pFormatted without its first two and last two characters
FormattedBlock == SubSeq(pFormatted, 3, Len(pFormatted) - 2)

\* a line of white space only, or empty
BlankLine(line) == \A j \in 1..Len(line) : line[j] \in WhiteSpace

\* C26: formatResponse(raw, label) emits "> **label:** line0" for the first
\* line of raw, "> line" for every later non-blank line and a bare ">" for
\* every later blank line, between a leading and a trailing blank line; every
\* line of the block starts with ">" and the blockquote scan of the delta
\* extractor runs through the whole formatted response.
C26_FormatResponse ==
  pFormatted # <<>> =>
    LET rawLines == split(LastResponse.body)
        blockLines == split(FormattedBlock)
    IN  /\ SubSeq(pFormatted, 1, 2) = <<NL, NL>>
        /\ SubSeq(pFormatted, Len(pFormatted) - 1, Len(pFormatted)) = <<NL, NL>>
        /\ Len(blockLines) = Len(rawLines)
        /\ blockLines[1] = <<">", " ", "*", "*">> \o LastResponse.label \o <<":", "*", "*", " ">> \o rawLines[1]
        /\ \A i \in 2..Len(rawLines) :
             blockLines[i] = IF BlankLine(rawLines[i]) THEN <<">">> ELSE <<">", " ">> \o rawLines[i]
        /\ \A i \in 1..Len(blockLines) : blockLines[i] # <<>> /\ blockLines[i][1] = ">"
        /\ userContentStartFrom(split(pFormatted), 0) = -1

\* a reply with a paragraph break was formatted: a quoted line, a bare ">"
\* and another quoted line
C26_Witness ==
  /\ pFormatted # <<>>
  /\ LastResponse.body = ReplyParagraphs
  /\ Len(split(FormattedBlock)) = 3
  /\ split(FormattedBlock)[2] = <<">">>

(***************************************************************************)
(* Properties of the debounced change handling (SpecDebounce).             *)
(***************************************************************************)
\* the Delta of the document as it is now
SettledDelta == getNewContent(getJournalContent(getValue(dLines)).text)

C27_NoCallWhileDisabled ==
  [][Len(dCalls') > Len(dCalls) => dEnabled]_vars

====
